---------------------------- MODULE Spec2Model ----------------------------
(***************************************************************************)
(* connect-redis-session: the promise-based RedisStoreAdapter             *)
(* (lib/adapter.ts), its two Lua scripts (set.lua, touch.lua), the         *)
(* serializer (lib/serializer.ts) and the Redis engine they talk to.       *)
(*                                                                         *)
(* Every adapter method is asynchronous: the code up to its `await` runs   *)
(* when the method is invoked (it reads Date.now() and builds the engine   *)
(* command), the engine executes the command atomically at some later      *)
(* time, and the code after the `await` turns the engine's reply into the  *)
(* method's result.  Handlers interleave at the engine.                    *)
(***************************************************************************)
EXTENDS Integers, Sequences, FiniteSets, TLC

(***************************************************************************)
(* Bounds of the model.                                                    *)
(***************************************************************************)
\* The clock advances MaxTicks times at most.
MaxTicks == 4
\* The configured grace period of a tombstone, in seconds (the option
\* `concurrencyGraceSeconds`, scaled down from its default of 300).
concurrencyGraceSeconds == 1
\* The largest configured fallback TTL in seconds (the option `ttlSeconds`,
\* scaled down from its default of 86400).
MaxTtlSeconds == 2

(***************************************************************************)
(* Time.  The factor between seconds and milliseconds is the program's;    *)
(* the clock of the model advances in half seconds.                        *)
(***************************************************************************)
\* The longest sequence of SCAN replies an engine of the model gives.
MaxScans == 3

MsPerSecond == 1000
TickMs == MsPerSecond \div 2
MaxNow == MaxTicks * TickMs

(***************************************************************************)
(* JavaScript values.  Every value is a tagged record, so that a Date, the *)
(* number of its getTime() and `undefined` are three different values.     *)
(* An object is a function from its own property names to values.          *)
(***************************************************************************)
Undefined == [t |-> "undefined"]
Null == [t |-> "null"]
Bool(b) == [t |-> "boolean", v |-> b]
Num(n) == [t |-> "number", v |-> n]
Str(s) == [t |-> "string", v |-> s]
Date(ms) == [t |-> "Date", time |-> ms]
getTime(d) == d.time
\* A thrown error or the reason of a rejected promise.
Error(name) == [t |-> "error", name |-> name]
\* An array, and the property names of its elements: '0', '1', ...
Arr(items) == [t |-> "array", items |-> items]
IndexNames == <<"0", "1", "2", "3">>

\* o.k : the value of a property, `undefined` when o has no such property.
Prop(o, k) == IF k \in DOMAIN o THEN o[k] ELSE Undefined
\* { ...o, k: v }
Spread(o, k, v) == [q \in DOMAIN o \cup {k} |-> IF q = k THEN v ELSE o[q]]
\* const { a, b, ...rest } = o
Rest(o, ks) == [q \in DOMAIN o \ ks |-> o[q]]
\* The kind of a value; an object has no tag.
TypeOf(v) == IF "t" \in DOMAIN v THEN v.t ELSE "object"
\* a[prop], for an own property of an object or an array
Get(a, prop) ==
    IF TypeOf(a) = "array"
    THEN a.items[CHOOSE i \in 1..Len(a.items) : IndexNames[i] = prop]
    ELSE a[prop]
\* Whether evaluating an expression threw, or a promise was rejected.
IsError(v) == TypeOf(v) = "error"
\* !!v
Truthy(v) ==
    CASE TypeOf(v) \in {"undefined", "null", "nil"} -> FALSE
      [] TypeOf(v) = "boolean" -> v.v
      [] TypeOf(v) = "number" -> v.v # 0
      [] TypeOf(v) = "string" -> ("v" \in DOMAIN v) => v.v # ""
      [] OTHER -> TRUE

(***************************************************************************)
(* JSON text.  JSON.stringify drops the properties whose value is          *)
(* `undefined`, writes `undefined` in an array as null and a Date as its   *)
(* ISO string; the text of an object is a string that is not 'TOMBSTONE'.  *)
(***************************************************************************)
DropUndefined(o) == [q \in {k \in DOMAIN o : o[k] # Undefined} |-> o[q]]
\* The value that the text of v denotes.
RECURSIVE toJSON(_)
toJSON(v) ==
    CASE TypeOf(v) = "object" ->
            LET o == DropUndefined(v) IN [q \in DOMAIN o |-> toJSON(o[q])]
      [] TypeOf(v) = "array" ->
            Arr([i \in 1..Len(v.items) |->
                   IF v.items[i] = Undefined THEN Null ELSE toJSON(v.items[i])])
      [] TypeOf(v) = "Date" -> [t |-> "string", iso |-> v.time]
      [] OTHER -> v
JSONstringify(data) == [t |-> "string", json |-> toJSON(data)]
\* JSON.parse throws a SyntaxError on a text that is not JSON.
JSONparse(text) == IF "json" \in DOMAIN text THEN text.json ELSE Error("SyntaxError")

(***************************************************************************)
(* lib/serializer.ts                                                       *)
(***************************************************************************)
\* stringify, were it to write the timestamps in whole seconds.
stringify_inSeconds(value) ==
    LET cookie == value.cookie
        lastModified == Prop(value, "lastModified")
        rest == Rest(value, {"cookie", "lastModified"})
        expires == Prop(cookie, "expires")
        data == Spread(
                  Spread(rest, "cookie",
                         Spread(cookie, "expires",
                                IF expires = Undefined THEN Undefined
                                ELSE Num(getTime(expires) \div MsPerSecond))),
                  "lastModified",
                  IF lastModified = Undefined THEN Undefined
                  ELSE Num(getTime(lastModified) \div MsPerSecond))
    IN JSONstringify(data)

stringify(value) ==
    LET cookie == value.cookie
        lastModified == Prop(value, "lastModified")
        rest == Rest(value, {"cookie", "lastModified"})
        expires == Prop(cookie, "expires")
        data == Spread(
                  Spread(rest, "cookie",
                         Spread(cookie, "expires",
                                IF expires = Undefined THEN Undefined
                                ELSE Num(getTime(expires)))),
                  "lastModified",
                  IF lastModified = Undefined THEN Undefined
                  ELSE Num(getTime(lastModified)))
    IN JSONstringify(data)

\* parse, were it to lose the cookie's expires.
parse_losesExpires(text) ==
    LET value == JSONparse(text)
        lastModified == Prop(value, "lastModified")
        rest == Rest(value, {"cookie", "lastModified"})
    IN Spread(
         Spread(rest, "cookie", Spread(value.cookie, "expires", Undefined)),
         "lastModified",
         IF lastModified = Undefined THEN Undefined ELSE Date(lastModified.v))

parse(text) ==
    LET value == JSONparse(text)
        cookie == value.cookie
        lastModified == Prop(value, "lastModified")
        rest == Rest(value, {"cookie", "lastModified"})
    IN IF IsError(value) THEN value
       ELSE Spread(
              Spread(rest, "cookie",
                     Spread(cookie, "expires",
                            IF Prop(cookie, "expires") = Undefined THEN Undefined
                            ELSE Date(Prop(cookie, "expires").v))),
              "lastModified",
              IF lastModified = Undefined THEN Undefined ELSE Date(lastModified.v))

(***************************************************************************)
(* lib/compare.ts                                                          *)
(***************************************************************************)
\* !!value && typeof value === 'object'
isIndexable(value) == TypeOf(value) \in {"object", "array", "Date"}
\* Object.keys(value): the indices of an array; a Date has no own enumerable
\* property.
ObjectKeys(value) ==
    CASE TypeOf(value) = "object" -> DOMAIN value
      [] TypeOf(value) = "array" -> {IndexNames[i] : i \in 1..Len(value.items)}
      [] OTHER -> {}
\* a == b, the loose comparison: false equals 0 and true equals 1.
StrictEquals_loose(a, b) ==
    LET number(v) == IF TypeOf(v) = "boolean" THEN Num(IF v.v THEN 1 ELSE 0) ELSE v
    IN ~isIndexable(a) /\ ~isIndexable(b) /\ number(a) = number(b)

\* a === b: by value for primitives; two objects built apart are never identical.
StrictEquals(a, b) == ~isIndexable(a) /\ ~isIndexable(b) /\ a = b

RECURSIVE deepEqual(_, _)
deepEqual(a, b) ==
    IF StrictEquals(a, b) THEN TRUE
    ELSE IF isIndexable(a) /\ isIndexable(b)
    THEN IF Cardinality(ObjectKeys(a)) # Cardinality(ObjectKeys(b)) THEN FALSE
         ELSE \A prop \in ObjectKeys(a) :
                 prop \in ObjectKeys(b) /\ deepEqual(Get(a, prop), Get(b, prop))
    ELSE FALSE

\* The values of test/compare.spec.ts.
Primitives ==
    {Num(0), Num(1), Bool(FALSE), Bool(TRUE), Str("foo"), Str("bar"), Null}
arr1 == Arr(<<Num(0), Num(1), Str("foo")>>)
obj1 == [a |-> Num(1), b |-> Arr(<<Str("x"), Str("y")>>)]
obj2 ==
    [a |-> Num(1),
     b |-> [x |-> Str("foo"), y |-> Arr(<<Num(0), Num(1)>>), z |-> [foo |-> Str("bar")]]]
Data == Primitives \cup {arr1, obj1, obj2}

\* The values that differ from x in one leaf, at any depth.
RECURSIVE LeafChanged(_)
LeafChanged(x) ==
    CASE TypeOf(x) = "object" ->
            UNION {{[x EXCEPT ![k] = m] : m \in LeafChanged(x[k])} : k \in DOMAIN x}
      [] TypeOf(x) = "array" ->
            UNION {{Arr([x.items EXCEPT ![i] = m]) : m \in LeafChanged(x.items[i])} :
                     i \in 1..Len(x.items)}
      [] OTHER -> Primitives \ {x}

\* The values that have one key (or one array element) more than x, at any
\* depth.
RECURSIVE KeyAdded(_)
KeyAdded(x) ==
    CASE TypeOf(x) = "object" ->
            {Spread(x, "c", Num(1))}
            \cup UNION {{[x EXCEPT ![k] = m] : m \in KeyAdded(x[k])} : k \in DOMAIN x}
      [] TypeOf(x) = "array" ->
            {Arr(Append(x.items, Num(1)))}
            \cup UNION {{Arr([x.items EXCEPT ![i] = m]) : m \in KeyAdded(x.items[i])} :
                          i \in 1..Len(x.items)}
      [] OTHER -> {}

\* The values that have one key (or the last array element) less than x, at
\* any depth.
RECURSIVE KeyRemoved(_)
KeyRemoved(x) ==
    CASE TypeOf(x) = "object" ->
            {Rest(x, {k}) : k \in DOMAIN x}
            \cup UNION {{[x EXCEPT ![k] = m] : m \in KeyRemoved(x[k])} : k \in DOMAIN x}
      [] TypeOf(x) = "array" ->
            (IF x.items = <<>> THEN {}
             ELSE {Arr(SubSeq(x.items, 1, Len(x.items) - 1))})
            \cup UNION {{Arr([x.items EXCEPT ![i] = m]) : m \in KeyRemoved(x.items[i])} :
                          i \in 1..Len(x.items)}
      [] OTHER -> {}

\* The values that have one key of x under another name.
KeyRenamed(x) ==
    IF TypeOf(x) = "object"
    THEN {Spread(Rest(x, {k}), "c", x[k]) : k \in DOMAIN x}
    ELSE {}

Variants(x) == LeafChanged(x) \cup KeyAdded(x) \cup KeyRemoved(x) \cup KeyRenamed(x)

(***************************************************************************)
(* The adapter's configuration and the sessions the callers use.           *)
(***************************************************************************)
prefix == "sessions:"
TOMBSTONE == Str("TOMBSTONE")

\* The session ids of the model, and the handlers that run concurrently.
sid == "1234"
Ids == {sid, "2345"}
Procs == {"h1", "h2"}

\* `${this.prefix}${sessionId}`
key(sessionId) == <<prefix, sessionId>>
Keys == {key(i) : i \in Ids}
\* The session ids and keys of the multi-key operations.
ScanIds == Ids \cup {"3456"}
ScanKeys == {key(i) : i \in ScanIds}
\* options.scanCount ?? 100
scanCount == 100

\* The values of the option `ttlSeconds`: number | false.
TtlSecondsOptions == {Bool(FALSE), Num(0), Num(MaxTtlSeconds)}

\* The sessions of the tests: application fields, a cookie with an optional
\* `expires`, an optional `lastModified`.
createFakeSession(data, expires, lastModified) ==
    Spread(Spread(data, "cookie", [originalMaxAge |-> Num(0), expires |-> expires]),
           "lastModified", lastModified)

AppData == {[foo |-> Str("bar")], [foo |-> Str("baz")]}
ExpiresInputs == {Undefined, Date(TickMs), Date(3 * TickMs)}
LastModifiedInputs == {Undefined, Date(MsPerSecond)}
Sessions ==
    {createFakeSession(d, e, Undefined) : d \in AppData, e \in ExpiresInputs}
    \cup {createFakeSession([foo |-> Str("bar")], Undefined, l) : l \in LastModifiedInputs}
\* touch only reads the cookie of the session it is given.
TouchArgs ==
    {Num(0), Num(1)}
    \cup {createFakeSession([foo |-> Str("bar")], e, Undefined) : e \in ExpiresInputs}

\* The sessions and touch arguments of the concurrent handlers.
RaceSessions ==
    {createFakeSession([foo |-> Str("bar")], Undefined, Undefined),
     createFakeSession([foo |-> Str("baz")], Date(TickMs), Undefined)}
RaceTouchArgs == {Num(1)}

(***************************************************************************)
(* State.                                                                  *)
(***************************************************************************)
VARIABLES
    now,         \* Date.now() and the engine's clock, in milliseconds
    ttlSeconds,  \* the adapter's option ttlSeconds
    db,          \* the engine: key -> [val, pexp]; val = Null when the key is absent
    pc,          \* handler -> "idle" | "wait" (command sent) | "done" (result returned)
    req,         \* handler -> the call in progress and the command it sent
    res,         \* handler -> the result of the call, once done
    bulk,        \* the multi-key operation in progress (clear, length, all)
    disableTouch,\* the store's option disableTouch
    callback     \* the arguments the store passed to the caller's callback

vars == <<now, ttlSeconds, db, pc, req, res, bulk, disableTouch, callback>>

NoKey == [val |-> Null, pexp |-> 0]
NoReq == [op |-> "none"]
\* No multi-key operation in progress; `prev` is the last one completed.
NoBulk ==
    [op |-> "none", arg |-> FALSE, pc |-> "idle", cursor |-> 0, visited |-> {},
     n |-> 0, queue |-> <<>>, results |-> <<>>, result |-> Undefined,
     start |-> <<>>, at |-> 0, prev |-> "none", rejected |-> Undefined,
     failures |-> <<>>]
\* The store has not called back.
NoCallback == [op |-> "none"]

(***************************************************************************)
(* The engine (Redis).  A command runs atomically.  A key with an expiry   *)
(* is removed when the clock reaches it.                                   *)
(***************************************************************************)
\* GET key
RedisGET(d, k) == d[k].val
\* SET key value PX ms (EX seconds = PX seconds * 1000)
RedisSET(d, k, v, ms, t) ==
    [db |-> [d EXCEPT ![k] = [val |-> v, pexp |-> t + ms]], reply |-> Str("OK")]
\* DEL key
RedisDEL(d, k) ==
    [db |-> [d EXCEPT ![k] = NoKey],
     reply |-> Num(IF d[k].val = Null THEN 0 ELSE 1)]
\* PEXPIRE key ms
RedisPEXPIRE(d, k, ms, t) ==
    IF d[k].val = Null THEN [db |-> d, reply |-> Num(0)]
    ELSE [db |-> [d EXCEPT ![k].pexp = t + ms], reply |-> Num(1)]

\* The script interpreter hands a missing key to the script as `false`, and
\* turns a script's `nil` or `false` into a null reply.
LuaNil == [t |-> "nil"]
LuaOfReply(v) == IF v = Null THEN Bool(FALSE) ELSE v
ReplyOfLua(v) == IF v = LuaNil \/ v = Bool(FALSE) THEN Null ELSE v

\* set.lua, were it to write without reading the key first.
set_lua_blind(d, k, argv1, argv2, t) ==
    LET r == RedisSET(d, k, argv1, argv2, t)
    IN [db |-> r.db, reply |-> ReplyOfLua(r.reply)]

\* set.lua, were it to test the value for nil instead of the tombstone.
set_lua_wrongSentinel(d, k, argv1, argv2, t) ==
    LET value == LuaOfReply(RedisGET(d, k))
    IN IF value = LuaNil
       THEN [db |-> d, reply |-> ReplyOfLua(LuaNil)]
       ELSE LET r == RedisSET(d, k, argv1, argv2, t)
            IN [db |-> r.db, reply |-> ReplyOfLua(r.reply)]

\* set.lua, were it to merge the new session into the stored one (tableMerge).
set_lua_merge(d, k, argv1, argv2, t) ==
    LET value == LuaOfReply(RedisGET(d, k))
        mergeTable(o, n) == [q \in DOMAIN o \cup DOMAIN n |->
                                IF q \in DOMAIN n THEN n[q] ELSE o[q]]
        merged ==
            IF value = Bool(FALSE) THEN argv1
            ELSE [t |-> "string",
                  json |-> Spread(mergeTable(value.json, argv1.json), "cookie",
                                  mergeTable(value.json.cookie, argv1.json.cookie))]
    IN IF value = TOMBSTONE
       THEN [db |-> d, reply |-> ReplyOfLua(LuaNil)]
       ELSE LET r == RedisSET(d, k, merged, argv2, t)
            IN [db |-> r.db, reply |-> ReplyOfLua(r.reply)]

\* lua/set.lua
set_lua(d, k, argv1, argv2, t) ==
    LET value == LuaOfReply(RedisGET(d, k))
    IN IF value = TOMBSTONE
       THEN [db |-> d, reply |-> ReplyOfLua(LuaNil)]
       ELSE LET r == RedisSET(d, k, argv1, argv2, t)
            IN [db |-> r.db, reply |-> ReplyOfLua(r.reply)]

\* touch.lua, were it to refuse a missing key only.
touch_lua_renewsTombstone(d, k, argv1, t) ==
    LET value == LuaOfReply(RedisGET(d, k))
    IN IF value = LuaNil
       THEN [db |-> d, reply |-> ReplyOfLua(LuaNil)]
       ELSE LET r == RedisPEXPIRE(d, k, argv1, t)
            IN [db |-> r.db, reply |-> ReplyOfLua(r.reply)]

\* lua/touch.lua
touch_lua(d, k, argv1, t) ==
    LET value == LuaOfReply(RedisGET(d, k))
    IN IF value = TOMBSTONE \/ value = LuaNil
       THEN [db |-> d, reply |-> ReplyOfLua(LuaNil)]
       ELSE LET r == RedisPEXPIRE(d, k, argv1, t)
            IN [db |-> r.db, reply |-> ReplyOfLua(r.reply)]

\* The engine executes one command.
Engine(d, cmd, t) ==
    CASE cmd.name = "GET" -> [db |-> d, reply |-> RedisGET(d, cmd.key)]
      [] cmd.name = "SET" -> RedisSET(d, cmd.key, cmd.value, cmd.EX * MsPerSecond, t)
      [] cmd.name = "DEL" -> RedisDEL(d, cmd.key)
      [] cmd.name = "EVAL_set" -> set_lua(d, cmd.key, cmd.value, cmd.ms, t)
      [] cmd.name = "EVAL_touch" -> touch_lua(d, cmd.key, cmd.ms, t)

\* The keys whose expiry the clock has reached are gone.
Expire(d, t) ==
    [k \in DOMAIN d |-> IF d[k].val # Null /\ d[k].pexp <= t THEN NoKey ELSE d[k]]

\* The elements of a sequence, and the orders in which a set can be listed.
Range(q) == {q[i] : i \in 1..Len(q)}
Orders(S) ==
    {q \in [1..Cardinality(S) -> S] : \A i, j \in 1..Cardinality(S) : q[i] = q[j] => i = j}

\* SCAN cursor TYPE string MATCH pattern COUNT n.  The cursor stands for the
\* keys the iteration has visited.  A call returns some of the matching keys
\* not visited yet, in some order (none at all is possible; COUNT is a hint),
\* and the cursor 0 exactly when it leaves no key to visit.
RedisSCAN(d, visited, match) ==
    LET todo == {k \in DOMAIN d : d[k].val # Null /\ k[1] = match} \ visited
    IN UNION {{[cursor |-> Cardinality(todo \ C), keys |-> q] : q \in Orders(C)} :
                 C \in SUBSET todo}

\* MGET key [key ...]
RedisMGET(d, ks) == [i \in 1..Len(ks) |-> RedisGET(d, ks[i])]

\* The queued commands of multi(), run one after the other with no other
\* command in between, as when the engine reads them from the connection
\* in one piece; the reply is the array of their replies.
RECURSIVE MultiExec(_, _, _)
MultiExec(d, cmds, t) ==
    IF cmds = <<>> THEN [db |-> d, reply |-> <<>>]
    ELSE LET e == Engine(d, Head(cmds), t)
             rest == MultiExec(e.db, Tail(cmds), t)
         IN [db |-> rest.db, reply |-> <<e.reply>> \o rest.reply]

\* DEL key [key ...]: the reply is the number of keys removed.
RECURSIVE RedisDELs(_, _)
RedisDELs(d, ks) ==
    IF ks = <<>> THEN [db |-> d, reply |-> Num(0)]
    ELSE LET e == RedisDEL(d, Head(ks))
             rest == RedisDELs(e.db, Tail(ks))
         IN [db |-> rest.db, reply |-> Num(e.reply.v + rest.reply.v)]

\* The engine executes the command of one batch of keys.
EngineBatch(d, cmd, t) ==
    CASE cmd.name = "MGET" -> [db |-> d, reply |-> RedisMGET(d, cmd.keys)]
      [] cmd.name = "MULTI" -> MultiExec(d, cmd.queue, t)
      [] cmd.name = "DEL" -> RedisDELs(d, cmd.keys)

(***************************************************************************)
(* lib/adapter.ts: RedisStoreAdapter.  Each method is the command it sends *)
(* (the code up to its await) and the result it makes of the reply.        *)
(***************************************************************************)
\* a || b
OrElse(a, b) == IF Truthy(a) THEN a ELSE b

\* checkTtlMilliseconds, were a disabled fallback to mean the longest TTL.
checkTtlMilliseconds_neverRejects(sessionData, opt, t) ==
    IF Prop(Prop(sessionData, "cookie"), "expires") # Undefined
    THEN getTime(sessionData.cookie.expires) - t
    ELSE OrElse(opt, Num(MaxTtlSeconds)).v * MsPerSecond

\* checkTtlMilliseconds, were an expires that has passed to give way to the
\* fallback.
checkTtlMilliseconds_fallbackWhenExpired(sessionData, opt, t) ==
    IF /\ Prop(Prop(sessionData, "cookie"), "expires") # Undefined
       /\ getTime(sessionData.cookie.expires) - t > 0
    THEN getTime(sessionData.cookie.expires) - t
    ELSE OrElse(opt, Num(0)).v * MsPerSecond

\* checkTtlMilliseconds(sessionData), with Date.now() = t
checkTtlMilliseconds(sessionData, opt, t) ==
    IF Prop(Prop(sessionData, "cookie"), "expires") # Undefined
    THEN getTime(sessionData.cookie.expires) - t
    ELSE OrElse(opt, Num(0)).v * MsPerSecond

\* destroy, were it to delete the key whatever useTombstone says.
destroyCommand_hard(sessionId, useTombstone) ==
    [name |-> "DEL", key |-> key(sessionId)]

\* destroy, were it to leave a tombstone whatever useTombstone says.
destroyCommand_alwaysTombstone(sessionId, useTombstone) ==
    [name |-> "SET", key |-> key(sessionId), value |-> TOMBSTONE,
     EX |-> concurrencyGraceSeconds]

\* destroy, were it to give the grace period in milliseconds to EX.
destroyCommand_graceInMs(sessionId, useTombstone) ==
    IF useTombstone
    THEN [name |-> "SET", key |-> key(sessionId), value |-> TOMBSTONE,
          EX |-> concurrencyGraceSeconds * MsPerSecond]
    ELSE [name |-> "DEL", key |-> key(sessionId)]

\* destroy(sessionId, useTombstone): the command
destroyCommand(sessionId, useTombstone) ==
    IF useTombstone
    THEN [name |-> "SET", key |-> key(sessionId), value |-> TOMBSTONE,
          EX |-> concurrencyGraceSeconds]
    ELSE [name |-> "DEL", key |-> key(sessionId)]

\* destroy(sessionId, useTombstone): the result
destroyResult(useTombstone, result) ==
    IF useTombstone THEN Bool(Truthy(result)) ELSE Bool(result = Num(1))

\* get, were it to decode whatever is stored: a tombstone does not parse.
getResult_noTombstoneCheck(result) ==
    IF ~Truthy(result) THEN Null
    ELSE IF result = TOMBSTONE THEN [t |-> "SyntaxError"]
    ELSE parse(result)

\* get(sessionId): the result
getResult(result) ==
    IF ~Truthy(result) \/ result = TOMBSTONE THEN Null ELSE parse(result)

\* x?.getTime()
getTimeOpt(x) == IF x = Undefined \/ x = Null THEN Undefined ELSE Num(getTime(x))

\* compare, were it to compare the two Date objects and not their times.
compareResult_byReference(sessionData, existing) ==
    [existing |-> existing,
     concurrent |-> Truthy(existing),
     consistent |->
        /\ Truthy(existing)
        /\ deepEqual(Spread(Spread(sessionData, "lastModified", Null), "cookie", Null),
                     Spread(Spread(existing, "lastModified", Null), "cookie", Null))]

\* compare, were it to report a session that is gone as a concurrent change.
compareResult_goneIsConcurrent(sessionData, existing) ==
    [existing |-> existing,
     concurrent |->
        getTimeOpt(Prop(sessionData, "lastModified"))
           # getTimeOpt(Prop(existing, "lastModified")),
     consistent |->
        /\ Truthy(existing)
        /\ deepEqual(Spread(Spread(sessionData, "lastModified", Null), "cookie", Null),
                     Spread(Spread(existing, "lastModified", Null), "cookie", Null))]

\* compare(sessionId, sessionData): the result, from the result of get
compareResult(sessionData, existing) ==
    [existing |-> existing,
     concurrent |->
        /\ Truthy(existing)
        /\ getTimeOpt(Prop(sessionData, "lastModified"))
              # getTimeOpt(Prop(existing, "lastModified")),
     consistent |->
        /\ Truthy(existing)
        /\ deepEqual(Spread(Spread(sessionData, "lastModified", Null), "cookie", Null),
                     Spread(Spread(existing, "lastModified", Null), "cookie", Null))]

\* The record set writes, were it to keep a lastModified the caller gave.
stamp_keepsCallers(sessionData, t) ==
    IF Prop(sessionData, "lastModified") # Undefined THEN sessionData
    ELSE Spread(sessionData, "lastModified", Date(t))

\* { ...sessionData, lastModified: new Date(Date.now()) }
stamp(sessionData, t) == Spread(sessionData, "lastModified", Date(t))

\* set, were it to reject a negative TTL only.
setCall_strict(sessionId, sessionData, opt, t) ==
    LET ttlMilliseconds == checkTtlMilliseconds(sessionData, opt, t)
    IN IF ttlMilliseconds < 0
       THEN [op |-> "set", sessionId |-> sessionId, arg |-> sessionData,
             ttlMilliseconds |-> ttlMilliseconds, at |-> t,
             cmd |-> destroyCommand(sessionId, TRUE)]
       ELSE [op |-> "set", sessionId |-> sessionId, arg |-> sessionData,
             ttlMilliseconds |-> ttlMilliseconds, at |-> t,
             cmd |-> [name |-> "EVAL_set", key |-> key(sessionId),
                      value |-> stringify(stamp(sessionData, t)),
                      ms |-> ttlMilliseconds]]

\* set, were it to scale the TTL once more before it passes it to the script.
setCall_scalesTwice(sessionId, sessionData, opt, t) ==
    LET ttlMilliseconds == checkTtlMilliseconds(sessionData, opt, t)
    IN IF ttlMilliseconds <= 0
       THEN [op |-> "set", sessionId |-> sessionId, arg |-> sessionData,
             ttlMilliseconds |-> ttlMilliseconds, at |-> t,
             cmd |-> destroyCommand(sessionId, TRUE)]
       ELSE [op |-> "set", sessionId |-> sessionId, arg |-> sessionData,
             ttlMilliseconds |-> ttlMilliseconds, at |-> t,
             cmd |-> [name |-> "EVAL_set", key |-> key(sessionId),
                      value |-> stringify(stamp(sessionData, t)),
                      ms |-> ttlMilliseconds * MsPerSecond]]

\* set(sessionId, sessionData): the call up to its await
setCall(sessionId, sessionData, opt, t) ==
    LET ttlMilliseconds == checkTtlMilliseconds(sessionData, opt, t)
    IN IF ttlMilliseconds <= 0
       THEN [op |-> "set", sessionId |-> sessionId, arg |-> sessionData,
             ttlMilliseconds |-> ttlMilliseconds, at |-> t,
             cmd |-> destroyCommand(sessionId, TRUE)]
       ELSE [op |-> "set", sessionId |-> sessionId, arg |-> sessionData,
             ttlMilliseconds |-> ttlMilliseconds, at |-> t,
             cmd |-> [name |-> "EVAL_set", key |-> key(sessionId),
                      value |-> stringify(stamp(sessionData, t)),
                      ms |-> ttlMilliseconds]]

\* set, were it to return its record whatever the script replied.
setResult_ignoresReply(r, result) ==
    IF r.ttlMilliseconds <= 0 THEN Null ELSE stamp(r.arg, r.at)

\* set(sessionId, sessionData): the result
setResult(r, result) ==
    IF r.ttlMilliseconds <= 0 THEN Null
    ELSE IF ~Truthy(result) THEN Null
    ELSE stamp(r.arg, r.at)

\* touch, were it to pass a number of seconds to the script as it is.
touchCall_seconds(sessionId, arg, opt, t) ==
    LET ttlMilliseconds ==
            IF TypeOf(arg) = "number" THEN arg.v
            ELSE checkTtlMilliseconds(arg, opt, t)
    IN IF ttlMilliseconds <= 0
       THEN [op |-> "touch", sessionId |-> sessionId, arg |-> arg,
             ttlMilliseconds |-> ttlMilliseconds, at |-> t,
             cmd |-> destroyCommand(sessionId, TRUE)]
       ELSE [op |-> "touch", sessionId |-> sessionId, arg |-> arg,
             ttlMilliseconds |-> ttlMilliseconds, at |-> t,
             cmd |-> [name |-> "EVAL_touch", key |-> key(sessionId),
                      ms |-> ttlMilliseconds]]

\* touch, were it to reject a negative TTL only.
touchCall_strict(sessionId, arg, opt, t) ==
    LET ttlMilliseconds ==
            IF TypeOf(arg) = "number" THEN arg.v * MsPerSecond
            ELSE checkTtlMilliseconds(arg, opt, t)
    IN IF ttlMilliseconds < 0
       THEN [op |-> "touch", sessionId |-> sessionId, arg |-> arg,
             ttlMilliseconds |-> ttlMilliseconds, at |-> t,
             cmd |-> destroyCommand(sessionId, TRUE)]
       ELSE [op |-> "touch", sessionId |-> sessionId, arg |-> arg,
             ttlMilliseconds |-> ttlMilliseconds, at |-> t,
             cmd |-> [name |-> "EVAL_touch", key |-> key(sessionId),
                      ms |-> ttlMilliseconds]]

\* touch(sessionId, ttlSeconds): the call up to its await
touchCall(sessionId, arg, opt, t) ==
    LET ttlMilliseconds ==
            IF TypeOf(arg) = "number" THEN arg.v * MsPerSecond
            ELSE checkTtlMilliseconds(arg, opt, t)
    IN IF ttlMilliseconds <= 0
       THEN [op |-> "touch", sessionId |-> sessionId, arg |-> arg,
             ttlMilliseconds |-> ttlMilliseconds, at |-> t,
             cmd |-> destroyCommand(sessionId, TRUE)]
       ELSE [op |-> "touch", sessionId |-> sessionId, arg |-> arg,
             ttlMilliseconds |-> ttlMilliseconds, at |-> t,
             cmd |-> [name |-> "EVAL_touch", key |-> key(sessionId),
                      ms |-> ttlMilliseconds]]

\* touch(sessionId, ttlSeconds): the result
touchResult(r, result) ==
    IF r.ttlMilliseconds <= 0 THEN Null
    ELSE IF Truthy(result) THEN Date(r.ttlMilliseconds)
    ELSE Null

\* The result a call makes of the engine's reply.
Result(r, result) ==
    CASE r.op = "get" -> getResult(result)
      [] r.op = "set" -> setResult(r, result)
      [] r.op = "touch" -> touchResult(r, result)
      [] r.op = "destroy" -> destroyResult(r.arg, result)
      [] r.op = "compare" ->
            IF IsError(getResult(result)) THEN getResult(result)
            ELSE compareResult(r.arg, getResult(result))

\* length(false), were it to count every value the multi-get returns.
lengthBatchResult_countsTombstones(values) ==
    Cardinality({i \in 1..Len(values) : Truthy(values[i])})

\* clear, were it to give the grace period in milliseconds to EX.
clearCommand_graceInMs(useTombstones, keysBatch) ==
    IF useTombstones
    THEN [name |-> "MULTI", keys |-> keysBatch,
          queue |-> [i \in 1..Len(keysBatch) |->
                       [name |-> "SET", key |-> keysBatch[i], value |-> TOMBSTONE,
                        EX |-> concurrencyGraceSeconds * MsPerSecond]]]
    ELSE [name |-> "DEL", keys |-> keysBatch]

\* clear, were it to delete only the first key of each batch.
clearCommand_firstKey(useTombstones, keysBatch) ==
    IF useTombstones
    THEN [name |-> "MULTI", keys |-> keysBatch,
          queue |-> [i \in 1..Len(keysBatch) |->
                       [name |-> "SET", key |-> keysBatch[i], value |-> TOMBSTONE,
                        EX |-> concurrencyGraceSeconds]]]
    ELSE [name |-> "DEL", keys |-> SubSeq(keysBatch, 1, 1)]

\* clear(useTombstones): the command sent for one batch of keys
clearCommand(useTombstones, keysBatch) ==
    IF useTombstones
    THEN [name |-> "MULTI", keys |-> keysBatch,
          queue |-> [i \in 1..Len(keysBatch) |->
                       [name |-> "SET", key |-> keysBatch[i], value |-> TOMBSTONE,
                        EX |-> concurrencyGraceSeconds]]]
    ELSE [name |-> "DEL", keys |-> keysBatch]

\* clear: the count of one batch, from the reply
clearBatchResult(useTombstones, reply) ==
    IF useTombstones
    THEN Cardinality({i \in 1..Len(reply) : reply[i] # Null})
    ELSE reply.v

\* length(false): the count of one batch, from the values of its multi-get
lengthBatchResult(values) ==
    Cardinality({i \in 1..Len(values) : Truthy(values[i]) /\ values[i] # TOMBSTONE})

\* all: the sessions of one batch, from the values of its multi-get.  The
\* values are filtered first and the filtered array's index i is then used
\* to pick the key, keysBatch[i].
allBatchResult(keysBatch, values) ==
    LET filtered == SelectSeq(values, LAMBDA v : Truthy(v) /\ v # TOMBSTONE)
        thrown == {i \in 1..Len(filtered) : IsError(parse(filtered[i]))}
    IN IF thrown # {}
       THEN parse(filtered[CHOOSE i \in thrown : \A j \in thrown : i <= j])
       ELSE [id \in {keysBatch[i][2] : i \in 1..Len(filtered)} |->
               parse(filtered[CHOOSE i \in 1..Len(filtered) : keysBatch[i][2] = id])]

\* Object.assign({}, ...batchResults)
RECURSIVE ObjectAssign(_)
ObjectAssign(objs) ==
    IF objs = <<>> THEN <<>>
    ELSE LET init == ObjectAssign(SubSeq(objs, 1, Len(objs) - 1))
             last == objs[Len(objs)]
         IN [id \in DOMAIN init \cup DOMAIN last |->
                IF id \in DOMAIN last THEN last[id] ELSE init[id]]

\* counts.reduce((n, count) => n + count, 0)
RECURSIVE Sum(_)
Sum(counts) == IF counts = <<>> THEN 0 ELSE Head(counts) + Sum(Tail(counts))

\* The command a multi-key operation sends for one batch of keys.
batchCommand(op, arg, keysBatch) ==
    IF op = "clear" THEN clearCommand(arg, keysBatch)
    ELSE [name |-> "MGET", keys |-> keysBatch]

\* The result a multi-key operation makes of the reply for one batch.
batchResult(op, arg, keysBatch, reply) ==
    CASE op = "clear" -> clearBatchResult(arg, reply)
      [] op = "length" -> lengthBatchResult(reply)
      [] op = "all" -> allBatchResult(keysBatch, reply)

\* The result of a multi-key operation, once every batch has its result.
bulkResult(op, arg, n, results) ==
    CASE op = "length" /\ arg -> Num(n)
      [] op = "all" -> ObjectAssign(results)
      [] OTHER -> Num(Sum(results))

\* A method of the adapter, were it to answer an engine error with the
\* result it gives when the state forbids the operation.
Rejection_asFallback(r, error) ==
    IF r.op = "destroy" THEN Bool(FALSE) ELSE Null

\* What a call of the adapter makes of the rejection of its engine command:
\* no method catches, so the call rejects with the same error.
Rejection(r, error) == error

(***************************************************************************)
(* lib/index.ts: RedisStore.  Each method calls the adapter's and passes   *)
(* the outcome to the caller's callback.                                   *)
(***************************************************************************)
\* The engine errors of the model.
Errors == {Error("E1"), Error("E2")}

\* The second argument of the callback when the adapter's promise rejects.
catchResult(op) ==
    CASE op \in {"get", "set", "touch", "all"} -> Null
      [] op = "destroy" -> Bool(FALSE)
      [] op \in {"clear", "length"} -> Num(0)

\* .then(...).catch(...), were the catch to report success with the default.
thenCatch_dropsError(op, outcome) ==
    IF IsError(outcome)
    THEN [op |-> op, error |-> Null, result |-> catchResult(op)]
    ELSE [op |-> op, error |-> Null, result |-> outcome]

\* .then(result => callback(null, result)).catch(error => callback(error, d))
thenCatch(op, outcome) ==
    IF IsError(outcome)
    THEN [op |-> op, error |-> outcome, result |-> catchResult(op)]
    ELSE [op |-> op, error |-> Null, result |-> outcome]

(***************************************************************************)
(* Actions.                                                                *)
(***************************************************************************)
Init ==
    /\ now = 0
    /\ ttlSeconds \in TtlSecondsOptions
    /\ db = [k \in Keys |-> NoKey]
    /\ pc = [p \in Procs |-> "idle"]
    /\ req = [p \in Procs |-> NoReq]
    /\ res = [p \in Procs |-> Undefined]
    /\ bulk = NoBulk
    /\ disableTouch = FALSE
    /\ callback = NoCallback

Send(p, r) ==
    /\ pc[p] = "idle"
    /\ pc' = [pc EXCEPT ![p] = "wait"]
    /\ req' = [req EXCEPT ![p] = r]
    /\ UNCHANGED <<now, ttlSeconds, db, res, bulk, disableTouch, callback>>

get(p, sessionId) ==
    Send(p, [op |-> "get", sessionId |-> sessionId, at |-> now,
             cmd |-> [name |-> "GET", key |-> key(sessionId)]])

compare(p, sessionId, sessionData) ==
    Send(p, [op |-> "compare", sessionId |-> sessionId, arg |-> sessionData,
             at |-> now, cmd |-> [name |-> "GET", key |-> key(sessionId)]])

set(p, sessionId, sessionData) ==
    Send(p, setCall(sessionId, sessionData, ttlSeconds, now))

touch(p, sessionId, arg) ==
    Send(p, touchCall(sessionId, arg, ttlSeconds, now))

destroy(p, sessionId, useTombstone) ==
    Send(p, [op |-> "destroy", sessionId |-> sessionId, arg |-> useTombstone,
             at |-> now, cmd |-> destroyCommand(sessionId, useTombstone)])

\* The engine executes the command of p and p's call returns its result.
Exec(p) ==
    /\ pc[p] = "wait"
    /\ LET e == Engine(db, req[p].cmd, now)
       IN /\ db' = e.db
          /\ res' = [res EXCEPT ![p] = Result(req[p], e.reply)]
    /\ pc' = [pc EXCEPT ![p] = "done"]
    /\ UNCHANGED <<now, ttlSeconds, req, bulk, disableTouch, callback>>

\* The caller takes the result; the handler is free for its next call.
Return(p) ==
    /\ pc[p] = "done"
    /\ pc' = [pc EXCEPT ![p] = "idle"]
    /\ req' = [req EXCEPT ![p] = NoReq]
    /\ res' = [res EXCEPT ![p] = Undefined]
    /\ UNCHANGED <<now, ttlSeconds, db, bulk, disableTouch, callback>>

\* Time passes.
Tick ==
    /\ now < MaxNow
    /\ now' = now + TickMs
    /\ db' = Expire(db, now + TickMs)
    /\ UNCHANGED <<ttlSeconds, pc, req, res, bulk, disableTouch, callback>>

\* The calls a handler may start, on the session ids I, the sessions S and
\* the touch arguments T.
Call(p, I, S, T) ==
    \/ \E i \in I : get(p, i)
    \/ \E i \in I, s \in S : set(p, i, s)
    \/ \E i \in I, a \in T : touch(p, i, a)
    \/ \E i \in I, b \in BOOLEAN : destroy(p, i, b)
    \/ \E i \in I, s \in S : compare(p, i, s)

\* One handler on one key, every session and every option.
Next ==
    \/ Call("h1", {sid}, Sessions, TouchArgs)
    \/ Exec("h1")
    \/ Return("h1")
    \/ Tick

Spec == Init /\ [][Next]_vars

\* Concurrent handlers on one key.
InitRace == Init /\ ttlSeconds = Num(MaxTtlSeconds)

NextRace ==
    \/ \E p \in Procs : Call(p, {sid}, RaceSessions, RaceTouchArgs)
    \/ \E p \in Procs : Exec(p)
    \/ \E p \in Procs : Return(p)
    \/ Tick

SpecRace == InitRace /\ [][NextRace]_vars

\* One handler on several keys.
NextKeys ==
    \/ Call("h1", Ids, RaceSessions, RaceTouchArgs)
    \/ Exec("h1")
    \/ Return("h1")
    \/ Tick

SpecKeys == InitRace /\ [][NextKeys]_vars

(***************************************************************************)
(* The multi-key operations.  Each one iterates generateKeys: a SCAN is    *)
(* awaited, the command for the batch it returned is sent without being    *)
(* awaited, and the next SCAN is sent behind it on the same connection, so *)
(* the engine executes SCAN, batch, SCAN, batch, ...; the results of the   *)
(* batches are joined after the last SCAN.                                 *)
(***************************************************************************)
Begin(op, arg) ==
    /\ bulk.pc = "idle"
    /\ bulk' = [NoBulk EXCEPT !.op = op, !.arg = arg, !.pc = "scan",
                              !.start = db, !.at = now, !.prev = bulk.prev]
    /\ UNCHANGED <<now, ttlSeconds, db, pc, req, res, disableTouch, callback>>

clear(useTombstones) == Begin("clear", useTombstones)
length(estimate) == Begin("length", estimate)
all == Begin("all", FALSE)

\* One turn of generateKeys' loop: the engine executes the SCAN, the
\* consumer takes the keys (length(true) counts them one by one, the others
\* send the command of the batch), and the loop ends when the cursor is 0.
generateKeys ==
    /\ bulk.pc = "scan"
    /\ bulk.queue = <<>>
    /\ \E r \in RedisSCAN(db, bulk.visited, prefix) :
          LET batch == ~(bulk.op = "length" /\ bulk.arg)
          IN bulk' = [bulk EXCEPT
                        !.cursor = r.cursor,
                        !.visited = @ \cup Range(r.keys),
                        !.n = IF batch THEN @ ELSE @ + Len(r.keys),
                        !.queue = IF batch /\ Len(r.keys) > 0
                                  THEN <<batchCommand(bulk.op, bulk.arg, r.keys)>>
                                  ELSE @,
                        !.pc = IF r.cursor # 0 THEN "scan" ELSE "join"]
    /\ UNCHANGED <<now, ttlSeconds, db, pc, req, res, disableTouch, callback>>

\* The engine executes the command of a batch; its promise resolves.
ExecBatch ==
    /\ bulk.queue # <<>>
    /\ LET cmd == Head(bulk.queue)
           e == EngineBatch(db, cmd, now)
           result == batchResult(bulk.op, bulk.arg, cmd.keys, e.reply)
           thrown == bulk.op = "all" /\ IsError(result)
       IN /\ db' = e.db
          /\ bulk' = [bulk EXCEPT
                        !.queue = Tail(@),
                        !.results = IF thrown THEN @ ELSE Append(@, result),
                        !.rejected = IF thrown /\ @ = Undefined THEN result ELSE @]
    /\ UNCHANGED <<now, ttlSeconds, pc, req, res, disableTouch, callback>>

\* Promise.all(batchPromises).then(...): the operation returns.
Join ==
    /\ bulk.pc = "join"
    /\ bulk.queue = <<>>
    /\ bulk' = [bulk EXCEPT
                  !.pc = "done",
                  !.result = IF bulk.rejected # Undefined THEN bulk.rejected
                             ELSE bulkResult(bulk.op, bulk.arg, bulk.n, bulk.results)]
    /\ UNCHANGED <<now, ttlSeconds, db, pc, req, res, disableTouch, callback>>

\* The caller takes the result.
Taken ==
    /\ bulk.pc = "done"
    /\ bulk' = [NoBulk EXCEPT
                  !.prev = IF bulk.op = "clear" /\ ~bulk.arg THEN "clear(false)"
                           ELSE "other"]
    /\ UNCHANGED <<now, ttlSeconds, db, pc, req, res, disableTouch, callback>>

\* A store as sets and soft destroys made at time 0 leave it.
ScanStores ==
    [ScanKeys ->
        {NoKey, [val |-> TOMBSTONE, pexp |-> concurrencyGraceSeconds * MsPerSecond]}
        \cup {[val |-> stringify(stamp(s, 0)),
               pexp |-> checkTtlMilliseconds(s, Num(MaxTtlSeconds), 0)] :
                 s \in RaceSessions}]

InitScan ==
    /\ now = 0
    /\ ttlSeconds = Num(MaxTtlSeconds)
    /\ db \in ScanStores
    /\ pc = [p \in Procs |-> "idle"]
    /\ req = [p \in Procs |-> NoReq]
    /\ res = [p \in Procs |-> Undefined]
    /\ bulk = NoBulk
    /\ disableTouch = FALSE
    /\ callback = NoCallback

\* The multi-key operations on a store with no other writer.
NextScan ==
    \/ \E b \in BOOLEAN : clear(b)
    \/ \E b \in BOOLEAN : length(b)
    \/ all
    \/ generateKeys
    \/ ExecBatch
    \/ Join
    \/ Taken
    \/ Tick

SpecScan == InitScan /\ [][NextScan]_vars

(***************************************************************************)
(* Engine errors.  A command that fails is not executed; its promise       *)
(* rejects.                                                                *)
(***************************************************************************)
Fail(p, error) ==
    /\ pc[p] = "wait"
    /\ pc' = [pc EXCEPT ![p] = "done"]
    /\ req' = [req EXCEPT ![p] = Spread(@, "error", error)]
    /\ res' = [res EXCEPT ![p] = Rejection(req[p], error)]
    /\ UNCHANGED <<now, ttlSeconds, db, bulk, disableTouch, callback>>

\* The SCAN fails: generateKeys throws into the for await loop and the
\* operation rejects at once.
FailScan(error) ==
    /\ bulk.pc = "scan"
    /\ bulk.queue = <<>>
    /\ bulk' = [bulk EXCEPT !.pc = "done", !.result = error,
                            !.failures = Append(@, error)]
    /\ UNCHANGED <<now, ttlSeconds, db, pc, req, res, disableTouch, callback>>

\* The command of a batch fails: the promise of the batch rejects.
FailBatch(error) ==
    /\ bulk.queue # <<>>
    /\ bulk' = [bulk EXCEPT
                  !.queue = Tail(@),
                  !.rejected = IF @ = Undefined THEN error ELSE @,
                  !.failures = Append(@, error)]
    /\ UNCHANGED <<now, ttlSeconds, db, pc, req, res, disableTouch, callback>>

\* A store of two sessions as sets and soft destroys made at time 0 leave it.
FailStores ==
    [Keys ->
        {NoKey, [val |-> TOMBSTONE, pexp |-> concurrencyGraceSeconds * MsPerSecond]}
        \cup {[val |-> stringify(stamp(s, 0)),
               pexp |-> checkTtlMilliseconds(s, Num(MaxTtlSeconds), 0)] :
                 s \in RaceSessions}]

InitFail ==
    /\ now = 0
    /\ ttlSeconds = Num(MaxTtlSeconds)
    /\ db \in FailStores
    /\ pc = [p \in Procs |-> "idle"]
    /\ req = [p \in Procs |-> NoReq]
    /\ res = [p \in Procs |-> Undefined]
    /\ bulk = NoBulk
    /\ disableTouch = FALSE
    /\ callback = NoCallback

\* The multi-key operations on an engine that may fail any command.
NextFail ==
    \/ \E b \in BOOLEAN : clear(b)
    \/ \E b \in BOOLEAN : length(b)
    \/ all
    \/ generateKeys
    \/ ExecBatch
    \/ \E e \in Errors : FailScan(e)
    \/ \E e \in Errors : FailBatch(e)
    \/ Join
    \/ Taken
    \/ Tick

SpecFail == InitFail /\ [][NextFail]_vars

\* Values of another writer that the serializer cannot decode: a text that is
\* not JSON, and the empty string.
Undecodables == {Str("garbage"), Str("")}

\* A store of two keys that holds sessions, tombstones and such values.
DecodeStores ==
    [Keys ->
        {NoKey, [val |-> TOMBSTONE, pexp |-> concurrencyGraceSeconds * MsPerSecond],
         [val |-> stringify(stamp(createFakeSession([foo |-> Str("bar")],
                                                    Undefined, Undefined), 0)),
          pexp |-> MaxTtlSeconds * MsPerSecond]}
        \cup {[val |-> v, pexp |-> MaxTtlSeconds * MsPerSecond] : v \in Undecodables}]

InitDecode ==
    /\ now = 0
    /\ ttlSeconds = Num(MaxTtlSeconds)
    /\ db \in DecodeStores
    /\ pc = [p \in Procs |-> "idle"]
    /\ req = [p \in Procs |-> NoReq]
    /\ res = [p \in Procs |-> Undefined]
    /\ bulk = NoBulk
    /\ disableTouch = FALSE
    /\ callback = NoCallback

\* The reading operations on such a store.
NextDecode ==
    \/ \E i \in Ids : get("h1", i)
    \/ Exec("h1")
    \/ Return("h1")
    \/ length(FALSE)
    \/ all
    \/ generateKeys
    \/ ExecBatch
    \/ Join
    \/ Taken
    \/ Tick

SpecDecode == InitDecode /\ [][NextDecode]_vars

(***************************************************************************)
(* generateKeys against any engine: the engine answers the n-th SCAN with  *)
(* the n-th reply of a script, whatever cursor it is given, and may answer *)
(* a SCAN before it has executed the commands of earlier batches.          *)
(***************************************************************************)
\* The cursors and the key lists of the replies: no key, one key, two keys
\* (an engine may list a key in more than one reply).
ScriptCursors == {0, 1, 2}
ScriptKeys == {<<>>, <<key(sid)>>, <<key("2345"), key(sid)>>}
ScanReplies == [cursor : ScriptCursors, keys : ScriptKeys]
\* The engines whose cursor returns to 0 within MaxScans replies.
ScanScripts ==
    UNION {{q \in [1..n -> ScanReplies] : q[n].cursor = 0} : n \in 1..MaxScans}

\* One turn of the loop, were it to stop at a reply without keys.
generateKeysTurn_stopsWhenEmpty(b, r) ==
    LET batch == ~(b.op = "length" /\ b.arg)
    IN [b EXCEPT
          !.cursor = r.cursor,
          !.sent = Append(@, b.cursor),
          !.got = Append(@, r),
          !.n = IF batch THEN @ ELSE @ + Len(r.keys),
          !.out = IF Len(r.keys) = 0 THEN @
                  ELSE IF batch THEN Append(@, r.keys) ELSE @ \o r.keys,
          !.queue = IF batch /\ Len(r.keys) > 0
                    THEN Append(@, batchCommand(b.op, b.arg, r.keys))
                    ELSE @,
          !.pc = IF r.cursor # 0 /\ Len(r.keys) > 0 THEN "scan" ELSE "join"]

\* One turn of the loop, were it to yield whatever the reply holds.
generateKeysTurn_yieldsEmpty(b, r) ==
    LET batch == ~(b.op = "length" /\ b.arg)
    IN [b EXCEPT
          !.cursor = r.cursor,
          !.sent = Append(@, b.cursor),
          !.got = Append(@, r),
          !.n = IF batch THEN @ ELSE @ + Len(r.keys),
          !.out = IF batch THEN Append(@, r.keys) ELSE @ \o r.keys,
          !.queue = IF batch
                    THEN Append(@, batchCommand(b.op, b.arg, r.keys))
                    ELSE @,
          !.pc = IF r.cursor # 0 THEN "scan" ELSE "join"]

\* One turn of generateKeys' loop, for the reply r of the SCAN: the cursor
\* sent is the local `cursor`, the keys are yielded if there are any (the
\* consumer sends the command of a batch, or counts the keys one by one),
\* and the loop goes on while the cursor is not 0.
generateKeysTurn(b, r) ==
    LET batch == ~(b.op = "length" /\ b.arg)
    IN [b EXCEPT
          !.cursor = r.cursor,
          !.sent = Append(@, b.cursor),
          !.got = Append(@, r),
          !.n = IF batch THEN @ ELSE @ + Len(r.keys),
          !.out = IF Len(r.keys) = 0 THEN @
                  ELSE IF batch THEN Append(@, r.keys) ELSE @ \o r.keys,
          !.queue = IF batch /\ Len(r.keys) > 0
                    THEN Append(@, batchCommand(b.op, b.arg, r.keys))
                    ELSE @,
          !.pc = IF r.cursor # 0 THEN "scan" ELSE "join"]

\* A multi-key operation starts on the engine with the script q.
BeginOn(op, arg, q) ==
    /\ bulk.pc = "idle"
    /\ bulk' = [NoBulk EXCEPT !.op = op, !.arg = arg, !.pc = "scan",
                              !.start = db, !.at = now]
               @@ [script |-> q, sent |-> <<>>, got |-> <<>>, out |-> <<>>]
    /\ UNCHANGED <<now, ttlSeconds, db, pc, req, res, disableTouch, callback>>

\* The loop, were it to wait for the result of a batch before the next SCAN.
generateKeysOn_awaitsBatch ==
    /\ bulk.pc = "scan"
    /\ bulk.queue = <<>>
    /\ bulk' = generateKeysTurn(bulk, bulk.script[Len(bulk.sent) + 1])
    /\ UNCHANGED <<now, ttlSeconds, db, pc, req, res, disableTouch, callback>>

\* One turn of the loop: the SCAN is sent and answered.
generateKeysOn ==
    /\ bulk.pc = "scan"
    /\ bulk' = generateKeysTurn(bulk, bulk.script[Len(bulk.sent) + 1])
    /\ UNCHANGED <<now, ttlSeconds, db, pc, req, res, disableTouch, callback>>

\* The stores of the scripted scans: a session under one key, a session or
\* a tombstone under the other.
CursorStores ==
    {d \in [Keys ->
               {[val |-> TOMBSTONE, pexp |-> concurrencyGraceSeconds * MsPerSecond],
                [val |-> stringify(stamp(createFakeSession([foo |-> Str("bar")],
                                                           Undefined, Undefined), 0)),
                 pexp |-> MaxTtlSeconds * MsPerSecond]}] :
        d[key(sid)].val # TOMBSTONE}

InitCursor ==
    /\ now = 0
    /\ ttlSeconds = Num(MaxTtlSeconds)
    /\ db \in CursorStores
    /\ pc = [p \in Procs |-> "idle"]
    /\ req = [p \in Procs |-> NoReq]
    /\ res = [p \in Procs |-> Undefined]
    /\ bulk = NoBulk
    /\ disableTouch = FALSE
    /\ callback = NoCallback

NextCursor ==
    \/ bulk.pc = "idle" /\ \E q \in ScanScripts : BeginOn("clear", TRUE, q)
    \/ bulk.pc = "idle" /\ \E q \in ScanScripts, b \in BOOLEAN : BeginOn("length", b, q)
    \/ bulk.pc = "idle" /\ \E q \in ScanScripts : BeginOn("all", FALSE, q)
    \/ generateKeysOn
    \/ ExecBatch
    \/ Join
    \/ Taken

\* The engine answers every SCAN.
SpecCursor == InitCursor /\ [][NextCursor]_vars /\ WF_vars(generateKeysOn)

(***************************************************************************)
(* clear(true) beside another client.  multi.exec(true) sends the queued   *)
(* SETs as a pipeline, with no MULTI and no EXEC around them: the engine   *)
(* executes them in their order, and a command of another connection may   *)
(* be executed between two of them.  `replies` holds the replies of the    *)
(* SETs of the batch that have been executed.                              *)
(***************************************************************************)
clearPipelined ==
    /\ bulk.pc = "idle"
    /\ bulk' = [NoBulk EXCEPT !.op = "clear", !.arg = TRUE, !.pc = "scan",
                              !.start = db, !.at = now]
               @@ [replies |-> <<>>]
    /\ UNCHANGED <<now, ttlSeconds, db, pc, req, res, disableTouch, callback>>

\* The engine executes the next SET of the batch; after the last one the
\* promise of the batch resolves.
ExecPipelined ==
    /\ bulk.queue # <<>>
    /\ LET cmd == Head(bulk.queue)
           e == Engine(db, cmd.queue[Len(bulk.replies) + 1], now)
           replies == Append(bulk.replies, e.reply)
       IN /\ db' = e.db
          /\ bulk' = IF Len(replies) < Len(cmd.queue)
                     THEN [bulk EXCEPT !.replies = replies]
                     ELSE [bulk EXCEPT
                             !.queue = Tail(@),
                             !.replies = <<>>,
                             !.results = Append(@, batchResult(bulk.op, bulk.arg,
                                                               cmd.keys, replies))]
    /\ UNCHANGED <<now, ttlSeconds, pc, req, res, disableTouch, callback>>

\* A session under one key; a session or nothing under the other.
PipelineStores ==
    {d \in [Keys ->
               {NoKey,
                [val |-> stringify(stamp(createFakeSession([foo |-> Str("bar")],
                                                           Undefined, Undefined), 0)),
                 pexp |-> MaxTtlSeconds * MsPerSecond]}] :
        d[key(sid)] # NoKey}

InitPipeline ==
    /\ now = 0
    /\ ttlSeconds = Num(MaxTtlSeconds)
    /\ db \in PipelineStores
    /\ pc = [p \in Procs |-> "idle"]
    /\ req = [p \in Procs |-> NoReq]
    /\ res = [p \in Procs |-> Undefined]
    /\ bulk = NoBulk
    /\ disableTouch = FALSE
    /\ callback = NoCallback

\* One clear(true), and another client that sets the two keys while it runs.
NextPipeline ==
    \/ bulk.prev = "none" /\ clearPipelined
    \/ generateKeys
    \/ ExecPipelined
    \/ Join
    \/ Taken
    \/ bulk.pc # "idle" /\ \E i \in Ids :
          set("h1", i, createFakeSession([foo |-> Str("bar")], Undefined, Undefined))
    \/ Exec("h1")
    \/ Return("h1")
    \/ Tick

SpecPipeline == InitPipeline /\ [][NextPipeline]_vars

(***************************************************************************)
(* One caller, one call at a time, stops when the clock reaches MaxNow;    *)
(* time goes on while a key is left in the store.                          *)
(***************************************************************************)
Drain ==
    /\ now >= MaxNow
    /\ \E k \in DOMAIN db : db[k].val # Null
    /\ now' = now + TickMs
    /\ db' = Expire(db, now + TickMs)
    /\ UNCHANGED <<ttlSeconds, pc, req, res, bulk, disableTouch, callback>>

NextDrain ==
    \/ now < MaxNow /\ bulk.pc = "idle" /\ Call("h1", {sid}, Sessions, TouchArgs)
    \/ now < MaxNow /\ pc["h1"] = "idle" /\ clear(TRUE)
    \/ Exec("h1")
    \/ Return("h1")
    \/ generateKeys
    \/ ExecBatch
    \/ Join
    \/ Taken
    \/ Tick
    \/ Drain

\* Time passes.
SpecDrain == Init /\ [][NextDrain]_vars /\ WF_vars(Tick) /\ WF_vars(Drain)

(***************************************************************************)
(* The constructors.                                                       *)
(***************************************************************************)
\* options.ttlSeconds ?? 86400
defaultTtlSeconds == 86400
\* options.concurrencyGraceSeconds ?? 300
defaultConcurrencyGraceSeconds == 300
\* The serializer of lib/serializer.ts.
serializer == [parse |-> Str("parse"), stringify |-> Str("stringify")]

\* a || d
Nullish_falsy(a, d) == IF Truthy(a) THEN a ELSE d

\* a ?? d
Nullish(a, d) == IF a \in {Undefined, Null} THEN d ELSE a

\* new RedisStoreAdapter(options): the instance, or the error it throws.
RedisStoreAdapter(options) ==
    IF ~Truthy(Prop(options, "client"))
    THEN Error("Missing mandatory client option")
    ELSE [client |-> options.client,
          prefix |-> Nullish(Prop(options, "prefix"), Str(prefix)),
          scanCount |-> Nullish(Prop(options, "scanCount"), Num(scanCount)),
          ttlSeconds |-> Nullish(Prop(options, "ttlSeconds"), Num(defaultTtlSeconds)),
          concurrencyGraceSeconds |->
              Nullish(Prop(options, "concurrencyGraceSeconds"),
                      Num(defaultConcurrencyGraceSeconds)),
          serializer |-> Nullish(Prop(options, "serializer"), serializer)]

\* new RedisStore(options): the instance, or the error the adapter throws.
RedisStore(options) ==
    LET access == RedisStoreAdapter(options)
    IN IF IsError(access) THEN access
       ELSE [access |-> access,
             disableTouch |-> Nullish(Prop(options, "disableTouch"), Bool(FALSE))]

\* The connected client of the tests.
redisClient == [isOpen |-> Bool(TRUE)]

\* The options of the tests: each is left out (undefined) or has one of the
\* values of its type.
ConstructorOptions ==
    {DropUndefined(o) :
       o \in [client : {Undefined, redisClient},
              prefix : {Undefined, Str("sess:")},
              scanCount : {Undefined, Num(1000)},
              ttlSeconds : {Undefined, Bool(FALSE), Num(0), Num(MaxTtlSeconds)},
              concurrencyGraceSeconds : {Undefined, Num(100)},
              disableTouch : {Undefined, Bool(TRUE), Bool(FALSE)}]}

\* const store = new RedisStore(options), and new RedisStoreAdapter(options)
construct(p, class, options) ==
    /\ pc[p] = "idle"
    /\ pc' = [pc EXCEPT ![p] = "done"]
    /\ req' = [req EXCEPT ![p] = [op |-> "new", class |-> class, options |-> options]]
    /\ res' = [res EXCEPT ![p] = IF class = "RedisStore" THEN RedisStore(options)
                                 ELSE RedisStoreAdapter(options)]
    /\ UNCHANGED <<now, ttlSeconds, db, bulk, disableTouch, callback>>

NextConstructor ==
    \/ \E class \in {"RedisStore", "RedisStoreAdapter"}, options \in ConstructorOptions :
          construct("h1", class, options)
    \/ Return("h1")

SpecConstructor == InitRace /\ [][NextConstructor]_vars

(***************************************************************************)
(* RedisStore: one caller, one call at a time.                             *)
(***************************************************************************)
StoreSend(p, r) ==
    /\ pc[p] = "idle"
    /\ bulk.pc = "idle"
    /\ pc' = [pc EXCEPT ![p] = "wait"]
    /\ req' = [req EXCEPT ![p] = r]
    /\ callback' = NoCallback
    /\ UNCHANGED <<now, ttlSeconds, db, res, bulk, disableTouch>>

StoreBegin(op, arg) ==
    /\ \A p \in Procs : pc[p] = "idle"
    /\ bulk.pc = "idle"
    /\ bulk' = [NoBulk EXCEPT !.op = op, !.arg = arg, !.pc = "scan",
                              !.start = db, !.at = now, !.prev = bulk.prev]
    /\ callback' = NoCallback
    /\ UNCHANGED <<now, ttlSeconds, db, pc, req, res, disableTouch>>

RedisStore_get(p, sessionId) ==
    StoreSend(p, [op |-> "get", sessionId |-> sessionId, at |-> now,
                  cmd |-> [name |-> "GET", key |-> key(sessionId)]])

RedisStore_set(p, sessionId, sessionData) ==
    StoreSend(p, setCall(sessionId, sessionData, ttlSeconds, now))

\* touch, were it to ignore disableTouch.
RedisStore_touch_always(p, sessionId, sessionData) ==
    StoreSend(p, touchCall(sessionId, sessionData, ttlSeconds, now))

RedisStore_touch(p, sessionId, sessionData) ==
    IF disableTouch
    THEN /\ pc[p] = "idle"
         /\ bulk.pc = "idle"
         /\ callback' = [op |-> "touch", error |-> Null, result |-> Null]
         /\ UNCHANGED <<now, ttlSeconds, db, pc, req, res, bulk, disableTouch>>
    ELSE StoreSend(p, touchCall(sessionId, sessionData, ttlSeconds, now))

RedisStore_destroy(p, sessionId) ==
    StoreSend(p, [op |-> "destroy", sessionId |-> sessionId, arg |-> TRUE,
                  at |-> now, cmd |-> destroyCommand(sessionId, TRUE)])

RedisStore_clear == StoreBegin("clear", TRUE)
RedisStore_length == StoreBegin("length", FALSE)
RedisStore_all == StoreBegin("all", FALSE)

\* The adapter's promise has settled: the then or the catch handler calls
\* the caller's callback.
Settle(p) ==
    /\ pc[p] = "done"
    /\ pc' = [pc EXCEPT ![p] = "idle"]
    /\ req' = [req EXCEPT ![p] = NoReq]
    /\ res' = [res EXCEPT ![p] = Undefined]
    /\ callback' = thenCatch(req[p].op, res[p])
    /\ UNCHANGED <<now, ttlSeconds, db, bulk, disableTouch>>

SettleBulk ==
    /\ bulk.pc = "done"
    /\ bulk' = [NoBulk EXCEPT !.prev = "other"]
    /\ callback' = thenCatch(bulk.op, bulk.result)
    /\ UNCHANGED <<now, ttlSeconds, db, pc, req, res, disableTouch>>

InitStore ==
    /\ now = 0
    /\ ttlSeconds = Num(MaxTtlSeconds)
    /\ db = [k \in Keys |-> NoKey]
    /\ pc = [p \in Procs |-> "idle"]
    /\ req = [p \in Procs |-> NoReq]
    /\ res = [p \in Procs |-> Undefined]
    /\ bulk = NoBulk
    /\ disableTouch \in BOOLEAN
    /\ callback = NoCallback

NextStore ==
    \/ RedisStore_get("h1", sid)
    \/ \E s \in RaceSessions : RedisStore_set("h1", sid, s)
    \/ \E s \in RaceSessions : RedisStore_touch("h1", sid, s)
    \/ RedisStore_destroy("h1", sid)
    \/ RedisStore_clear
    \/ RedisStore_length
    \/ RedisStore_all
    \/ Exec("h1")
    \/ \E e \in Errors : Fail("h1", e)
    \/ Settle("h1")
    \/ generateKeys
    \/ ExecBatch
    \/ \E e \in Errors : FailScan(e)
    \/ \E e \in Errors : FailBatch(e)
    \/ Join
    \/ SettleBulk
    \/ Tick

SpecStore == InitStore /\ [][NextStore]_vars

(***************************************************************************)
(* RedisStore with a callback that may throw when it is given a result.    *)
(***************************************************************************)
\* What the callback throws.
callbackError == Error("thrown by the callback")

\* The invocations of the callback that .then(result => callback(null,
\* result)).catch(error => callback(error, d)) makes for an outcome of the
\* adapter: the catch handler also receives what the then handler throws.
thenCatchCalls(op, outcome, throws) ==
    IF IsError(outcome)
    THEN <<[error |-> outcome, result |-> catchResult(op)]>>
    ELSE IF throws
    THEN <<[error |-> Null, result |-> outcome],
           [error |-> callbackError, result |-> catchResult(op)]>>
    ELSE <<[error |-> Null, result |-> outcome]>>

\* The then / catch handlers of a single-key method run.
Handlers(p, throws) ==
    /\ pc[p] = "done"
    /\ pc' = [pc EXCEPT ![p] = "idle"]
    /\ req' = [req EXCEPT ![p] = NoReq]
    /\ res' = [res EXCEPT ![p] = Undefined]
    /\ callback' = [op |-> req[p].op, throws |-> throws,
                    calls |-> thenCatchCalls(req[p].op, res[p], throws)]
    /\ UNCHANGED <<now, ttlSeconds, db, bulk, disableTouch>>

\* The then / catch handlers of a multi-key method run.
BulkHandlers(throws) ==
    /\ bulk.pc = "done"
    /\ bulk' = [NoBulk EXCEPT !.prev = "other"]
    /\ callback' = [op |-> bulk.op, throws |-> throws,
                    calls |-> thenCatchCalls(bulk.op, bulk.result, throws)]
    /\ UNCHANGED <<now, ttlSeconds, db, pc, req, res, disableTouch>>

NextCallback ==
    \/ RedisStore_get("h1", sid)
    \/ \E s \in RaceSessions : RedisStore_set("h1", sid, s)
    \/ \E s \in RaceSessions : RedisStore_touch("h1", sid, s)
    \/ RedisStore_destroy("h1", sid)
    \/ RedisStore_clear
    \/ RedisStore_length
    \/ RedisStore_all
    \/ Exec("h1")
    \/ \E e \in Errors : Fail("h1", e)
    \/ \E throws \in BOOLEAN : Handlers("h1", throws)
    \/ generateKeys
    \/ ExecBatch
    \/ \E e \in Errors : FailScan(e)
    \/ \E e \in Errors : FailBatch(e)
    \/ Join
    \/ \E throws \in BOOLEAN : BulkHandlers(throws)
    \/ Tick

SpecCallback == InitStore /\ [][NextCallback]_vars

(***************************************************************************)
(* compare after set: one caller stores sessions under one id and compares *)
(* candidates with what is stored.                                         *)
(***************************************************************************)
\* obj1 with its sequence b written as a mapping from the indices.
obj1Mapping == [obj1 EXCEPT !.b = ("0" :> Str("x")) @@ ("1" :> Str("y"))]

CompareStored ==
    {createFakeSession(d, Undefined, Undefined) : d \in {[foo |-> Str("bar")], obj1}}

\* The candidates: the stored sessions with another cookie or lastModified,
\* with a changed, added or removed application field, and one without
\* cookie and lastModified (compare takes a Partial<SessionData>).
CompareCandidates ==
    {createFakeSession(d, e, l) :
        d \in {[foo |-> Str("bar")], [foo |-> Str("baz")], obj1},
        e \in {Undefined, Date(TickMs)},
        l \in LastModifiedInputs}
    \cup {createFakeSession(d, Undefined, Undefined) :
            d \in Variants(obj1) \cup {obj1Mapping}}
    \cup {[foo |-> Str("bar")]}

NextCompare ==
    \/ \E s \in CompareStored : set("h1", sid, s)
    \/ \E c \in CompareCandidates : compare("h1", sid, c)
    \/ Exec("h1")
    \/ Return("h1")
    \/ Tick

SpecCompare == InitRace /\ [][NextCompare]_vars

(***************************************************************************)
(* test/serializer.spec.ts: a session is serialized, and the text is       *)
(* deserialized.                                                           *)
(***************************************************************************)
\* The application fields and the timestamps of the test cases.
SerializerData ==
    {<<>>,
     [a |-> Str("foo"), b |-> Num(42), c |-> Bool(TRUE), d |-> Bool(FALSE), e |-> Null],
     [a |-> [b |-> [c |-> Str("d")]]],
     [a |-> arr1],
     obj2}
SerializerCases ==
    {createFakeSession(d, e, l) :
        d \in SerializerData,
        e \in ExpiresInputs \cup {Date(0)},
        l \in LastModifiedInputs \cup {Date(0)}}

serialize(p, data) ==
    /\ pc[p] = "idle"
    /\ pc' = [pc EXCEPT ![p] = "wait"]
    /\ req' = [req EXCEPT ![p] = [op |-> "stringify", data |-> data]]
    /\ res' = [res EXCEPT ![p] = stringify(data)]
    /\ UNCHANGED <<now, ttlSeconds, db, bulk, disableTouch, callback>>

deserialize(p) ==
    /\ pc[p] = "wait"
    /\ req[p].op = "stringify"
    /\ pc' = [pc EXCEPT ![p] = "done"]
    /\ req' = [req EXCEPT ![p] = [op |-> "parse", data |-> req[p].data,
                                  serialized |-> res[p]]]
    /\ res' = [res EXCEPT ![p] = parse(res[p])]
    /\ UNCHANGED <<now, ttlSeconds, db, bulk, disableTouch, callback>>

NextSerializer ==
    \/ \E data \in SerializerCases : serialize("h1", data)
    \/ deserialize("h1")
    \/ Return("h1")

SpecSerializer == InitRace /\ [][NextSerializer]_vars

(***************************************************************************)
(* test/compare.spec.ts: deepEqual applied to a pair of values.            *)
(***************************************************************************)
deepEqualTest(p, a, b) ==
    /\ pc[p] = "idle"
    /\ pc' = [pc EXCEPT ![p] = "done"]
    /\ req' = [req EXCEPT ![p] = [op |-> "deepEqual", a |-> a, b |-> b]]
    /\ res' = [res EXCEPT ![p] = Bool(deepEqual(a, b))]
    /\ UNCHANGED <<now, ttlSeconds, db, bulk, disableTouch, callback>>

NextDeepEqual ==
    \/ \E a \in Data, b \in Data : deepEqualTest("h1", a, b)
    \/ \E a \in Data : \E b \in Variants(a) :
          \/ deepEqualTest("h1", a, b)
          \/ deepEqualTest("h1", b, a)
    \/ Return("h1")

SpecDeepEqual == InitRace /\ [][NextDeepEqual]_vars

(***************************************************************************)
(* Vocabulary of the properties.                                           *)
(***************************************************************************)
Absent(d, k) == d[k].val = Null
Tombstoned(d, k) == d[k].val = TOMBSTONE
Live(d, k) == ~Absent(d, k) /\ ~Tombstoned(d, k)

\* The step in which the engine executes the command of p's call.
ExecStep(p) == pc[p] = "wait" /\ pc'[p] = "done"
\* p's call has returned and its result has not been taken yet.
Returned(p, op) == pc[p] = "done" /\ req[p].op = op
\* The key of p's call.
KeyOf(p) == key(req[p].sessionId)

\* The TTL in milliseconds that a call made at time t resolves for its
\* argument: seconds * 1000 for a number, else expires - t when the cookie has
\* an expires, else the fallback (0 when it is false).
ResolvedTtl(arg, opt, t) ==
    IF TypeOf(arg) = "number" THEN arg.v * 1000
    ELSE IF arg.cookie.expires # Undefined THEN arg.cookie.expires.time - t
    ELSE IF opt = Bool(FALSE) THEN 0
    ELSE opt.v * 1000
TtlOf(p) == ResolvedTtl(req[p].arg, ttlSeconds, req[p].at)

\* The record r with its lastModified replaced by the time t.
Stamped(r, t) == [r EXCEPT !.lastModified = Date(t)]

\* What a get(id) executed on the store d returns.
GetOn(d, id) == getResult(Engine(d, [name |-> "GET", key |-> key(id)], now).reply)

\* What a set(id, s) called and executed at time t on the store d returns,
\* and the store it leaves.
SetOn(d, id, s, opt, t) ==
    LET r == setCall(id, s, opt, t)
        e == Engine(d, r.cmd, t)
    IN [res |-> setResult(r, e.reply), db |-> e.db]

\* The Live keys, the tombstones and the keys of a store.
LiveKeys(d) == {k \in DOMAIN d : Live(d, k)}
Tombstones(d) == {k \in DOMAIN d : Tombstoned(d, k)}
Present(d) == {k \in DOMAIN d : ~Absent(d, k)}

\* The steps of a multi-key operation: the engine executes the command of a
\* batch; the operation returns.
BatchStep(op, arg) ==
    bulk.op = op /\ bulk.arg = arg /\ bulk.queue # <<>> /\ bulk'.queue = <<>>
JoinStep(op, arg) ==
    bulk.op = op /\ bulk.arg = arg /\ bulk.pc = "join" /\ bulk'.pc = "done"
\* The multi-key operation has returned and its result has not been taken.
Finished(op, arg) == bulk.op = op /\ bulk.arg = arg /\ bulk.pc = "done"
\* No key of the store on which the operation started has expired since.
Unexpired == Expire(bulk.start, now) = bulk.start

\* The application fields of a record: all but the cookie and lastModified.
AppFields(r) == Rest(r, {"cookie", "lastModified"})

(***************************************************************************)
(* C1. Tombstone wins: a set with a positive TTL whose script runs while   *)
(* the key holds the tombstone of a soft destroy returns null and leaves   *)
(* the stored value and its expiry unchanged.                              *)
(***************************************************************************)
C1_TombstoneWins ==
    [][\A p \in Procs :
         (/\ ExecStep(p)
          /\ req[p].op = "set"
          /\ TtlOf(p) > 0
          /\ Tombstoned(db, KeyOf(p)))
         => (res'[p] = Null /\ db' = db)]_vars

\* A set with a positive TTL has returned null and the tombstone is in place.
C1_Witness ==
    \E p \in Procs :
        /\ Returned(p, "set")
        /\ TtlOf(p) > 0
        /\ res[p] = Null
        /\ Tombstoned(db, KeyOf(p))
        /\ db[KeyOf(p)].pexp > now

(***************************************************************************)
(* C2. Under every interleaving of concurrent handlers, no step takes a    *)
(* key from Tombstoned to Live; a key leaves Tombstoned only to Absent,    *)
(* by the expiry of its grace period or by a hard delete.                  *)
(***************************************************************************)
C2_NoResurrection ==
    [][\A k \in Keys :
         Tombstoned(db, k) =>
            \/ Tombstoned(db', k)
            \/ /\ Absent(db', k)
               /\ \/ now' # now
                  \/ \E p \in Procs : ExecStep(p) /\ req[p].cmd.name = "DEL"]_vars

\* A set called before a concurrent destroy was called, and executed after
\* it, has returned null; the key is still tombstoned.
C2_Witness ==
    \E p, q \in Procs :
        /\ p # q
        /\ Returned(p, "set") /\ TtlOf(p) > 0 /\ res[p] = Null
        /\ Returned(q, "destroy") /\ req[q].arg = TRUE /\ res[q] = Bool(TRUE)
        /\ req[p].at < req[q].at
        /\ Tombstoned(db, KeyOf(p))

(***************************************************************************)
(* C3. set returns null if and only if its resolved TTL is <= 0 or the key *)
(* holds a tombstone when the script executes; otherwise it returns the    *)
(* stamped record.                                                         *)
(***************************************************************************)
C3_SetNullIff ==
    [][\A p \in Procs :
         (ExecStep(p) /\ req[p].op = "set") =>
            IF TtlOf(p) <= 0 \/ Tombstoned(db, KeyOf(p))
            THEN res'[p] = Null
            ELSE res'[p] = Stamped(req[p].arg, req[p].at)]_vars

\* A set on a key that is not tombstoned has returned its stamped record.
C3_Witness ==
    \E p \in Procs :
        /\ Returned(p, "set")
        /\ TtlOf(p) > 0
        /\ res[p] # Null
        /\ res[p].lastModified = Date(req[p].at)

(***************************************************************************)
(* C4. A set with TTL > 0 on an Absent or Live key makes the key Live: the *)
(* stored value is the serialization of the record stamped with the time   *)
(* of the call, the key's lifetime is the resolved TTL, and a get that     *)
(* follows returns exactly the record that set returned.                   *)
(***************************************************************************)
C4_SetMakesLive ==
    [][\A p \in Procs :
         (/\ ExecStep(p)
          /\ req[p].op = "set"
          /\ TtlOf(p) > 0
          /\ ~Tombstoned(db, KeyOf(p)))
         => /\ Live(db', KeyOf(p))
            /\ db'[KeyOf(p)].val = stringify(Stamped(req[p].arg, req[p].at))
            /\ db'[KeyOf(p)].pexp = now + TtlOf(p)
            /\ GetOn(db', req[p].sessionId) = res'[p]
            /\ res'[p] = Stamped(req[p].arg, req[p].at)]_vars

\* A set has overwritten nothing but its own key, which is Live and reads
\* back as the record the set returned, cookie expires included.
C4_Witness ==
    \E p \in Procs :
        /\ Returned(p, "set")
        /\ res[p] # Null
        /\ res[p].cookie.expires # Undefined
        /\ Live(db, KeyOf(p))
        /\ GetOn(db, req[p].sessionId) = res[p]

(***************************************************************************)
(* C5. TTL rejection: a set whose resolved TTL is <= 0 writes no record;   *)
(* it leaves the key Tombstoned, whatever it was, and returns null.        *)
(***************************************************************************)
C5_SetTtlRejection ==
    [][\A p \in Procs :
         (ExecStep(p) /\ req[p].op = "set" /\ TtlOf(p) <= 0) =>
            /\ Tombstoned(db', KeyOf(p))
            /\ db'[KeyOf(p)].pexp = now + concurrencyGraceSeconds * 1000
            /\ res'[p] = Null]_vars

\* A set of a session that expires at the very time of the call was rejected.
C5_Witness ==
    \E p \in Procs :
        /\ Returned(p, "set")
        /\ TtlOf(p) = 0
        /\ res[p] = Null
        /\ Tombstoned(db, KeyOf(p))

(***************************************************************************)
(* C6. A touch with TTL > 0 on an Absent or Tombstoned key returns null    *)
(* and changes nothing: no key is created and a tombstone keeps its value  *)
(* and its expiry.                                                         *)
(***************************************************************************)
C6_TouchRefused ==
    [][\A p \in Procs :
         (/\ ExecStep(p)
          /\ req[p].op = "touch"
          /\ TtlOf(p) > 0
          /\ ~Live(db, KeyOf(p)))
         => (res'[p] = Null /\ db' = db)]_vars

\* A touch with a TTL longer than the tombstone's remaining lifetime was
\* refused.
C6_Witness ==
    \E p \in Procs :
        /\ Returned(p, "touch")
        /\ TtlOf(p) > 0
        /\ res[p] = Null
        /\ Tombstoned(db, KeyOf(p))
        /\ db[KeyOf(p)].pexp < now + TtlOf(p)

(***************************************************************************)
(* C7. A touch with TTL > 0 on a Live key leaves the stored value          *)
(* unchanged and sets the key's remaining lifetime to exactly the TTL,     *)
(* longer or shorter than before.                                          *)
(***************************************************************************)
C7_TouchRenews ==
    [][\A p \in Procs :
         (/\ ExecStep(p)
          /\ req[p].op = "touch"
          /\ TtlOf(p) > 0
          /\ Live(db, KeyOf(p)))
         => /\ db'[KeyOf(p)].val = db[KeyOf(p)].val
            /\ db'[KeyOf(p)].pexp = now + TtlOf(p)
            /\ \A k \in Keys \ {KeyOf(p)} : db'[k] = db[k]]_vars

\* A touch has renewed a Live key.
C7_Witness ==
    \E p \in Procs :
        /\ Returned(p, "touch")
        /\ TtlOf(p) > 0
        /\ res[p] # Null
        /\ Live(db, KeyOf(p))
        /\ db[KeyOf(p)].pexp = now + TtlOf(p)
        /\ parse(db[KeyOf(p)].val).lastModified # Date(req[p].at)

(***************************************************************************)
(* C8. A successful touch of a Live key returns the date at which the      *)
(* session will expire: the time of the call plus the TTL.                 *)
(***************************************************************************)
C8_TouchReturnsExpiryDate ==
    [][\A p \in Procs :
         (/\ ExecStep(p)
          /\ req[p].op = "touch"
          /\ TtlOf(p) > 0
          /\ Live(db, KeyOf(p)))
         => res'[p] = Date(req[p].at + TtlOf(p))]_vars

(***************************************************************************)
(* C9. A touch whose resolved TTL is <= 0 renews nothing: it leaves the    *)
(* key Tombstoned and returns null.                                        *)
(***************************************************************************)
C9_TouchTtlRejection ==
    [][\A p \in Procs :
         (ExecStep(p) /\ req[p].op = "touch" /\ TtlOf(p) <= 0) =>
            /\ Tombstoned(db', KeyOf(p))
            /\ db'[KeyOf(p)].pexp = now + concurrencyGraceSeconds * 1000
            /\ res'[p] = Null]_vars

\* A touch with a session that has no expires, under a fallback TTL that is
\* false, has tombstoned the key.
C9_Witness ==
    \E p \in Procs :
        /\ Returned(p, "touch")
        /\ TypeOf(req[p].arg) = "object"
        /\ req[p].arg.cookie.expires = Undefined
        /\ ttlSeconds = Bool(FALSE)
        /\ res[p] = Null
        /\ Tombstoned(db, KeyOf(p))

(***************************************************************************)
(* C10. get returns null on an Absent or Tombstoned key and the decoded    *)
(* record on a Live one; get and compare change no key's value or expiry.  *)
(***************************************************************************)
C10_GetReadsOnly ==
    [][\A p \in Procs :
         (ExecStep(p) /\ req[p].op \in {"get", "compare"}) =>
            LET got == IF req[p].op = "get" THEN res'[p] ELSE res'[p].existing
            IN /\ db' = db
               /\ ~Live(db, KeyOf(p)) => got = Null
               /\ Live(db, KeyOf(p)) => got = parse(db[KeyOf(p)].val)]_vars

\* A get of a tombstoned key has returned null, the tombstone being there,
\* beside another key that is Live.
C10_Witness ==
    \E p \in Procs :
        /\ Returned(p, "get")
        /\ res[p] = Null
        /\ Tombstoned(db, KeyOf(p))
        /\ \E k \in Keys \ {KeyOf(p)} : Live(db, k)

(***************************************************************************)
(* C11. destroy(id, true) leaves the key Tombstoned, whatever it was, with *)
(* the full grace period as its expiry (an existing tombstone's lifetime   *)
(* is refreshed); on a Live session it returns true.                       *)
(***************************************************************************)
C11_SoftDestroy ==
    [][\A p \in Procs :
         (ExecStep(p) /\ req[p].op = "destroy" /\ req[p].arg = TRUE) =>
            /\ Tombstoned(db', KeyOf(p))
            /\ db'[KeyOf(p)].pexp = now + concurrencyGraceSeconds * 1000
            /\ Live(db, KeyOf(p)) => res'[p] = Bool(TRUE)
            /\ \A k \in Keys \ {KeyOf(p)} : db'[k] = db[k]]_vars

\* A soft destroy called after the clock has advanced has returned true and
\* the tombstone has its full grace period ahead.
C11_Witness ==
    \E p \in Procs :
        /\ Returned(p, "destroy") /\ req[p].arg = TRUE
        /\ req[p].at > 0
        /\ res[p] = Bool(TRUE)
        /\ Tombstoned(db, KeyOf(p))
        /\ db[KeyOf(p)].pexp = now + concurrencyGraceSeconds * 1000

(***************************************************************************)
(* C12. destroy(id, false) on an Absent key changes nothing and returns    *)
(* false; on a Live or Tombstoned key it removes the key, leaving no       *)
(* tombstone, and returns true; a set with TTL > 0 then succeeds again.    *)
(***************************************************************************)
C12_HardDestroy ==
    [][\A p \in Procs :
         (ExecStep(p) /\ req[p].op = "destroy" /\ req[p].arg = FALSE) =>
            /\ Absent(db', KeyOf(p))
            /\ Absent(db, KeyOf(p)) => (db' = db /\ res'[p] = Bool(FALSE))
            /\ ~Absent(db, KeyOf(p)) => res'[p] = Bool(TRUE)
            /\ \A k \in Keys \ {KeyOf(p)} : db'[k] = db[k]
            /\ \A s \in Sessions :
                  ResolvedTtl(s, ttlSeconds, now) > 0 =>
                     LET after == SetOn(db', req[p].sessionId, s, ttlSeconds, now)
                     IN /\ after.res = Stamped(s, now)
                        /\ Live(after.db, KeyOf(p))]_vars

\* A hard destroy has returned true and the key is gone, with no time passed
\* in which a tombstone could have expired.
C12_Witness ==
    \E p \in Procs :
        /\ Returned(p, "destroy") /\ req[p].arg = FALSE
        /\ res[p] = Bool(TRUE)
        /\ Absent(db, KeyOf(p))
        /\ now = req[p].at

(***************************************************************************)
(* C13. destroy returns true if the session was destroyed and false if the *)
(* session id does not exist in the store, with and without a tombstone.   *)
(***************************************************************************)
C13_DestroyReturn ==
    [][\A p \in Procs :
         (ExecStep(p) /\ req[p].op = "destroy") =>
            /\ Absent(db, KeyOf(p)) => res'[p] = Bool(FALSE)
            /\ Live(db, KeyOf(p)) => res'[p] = Bool(TRUE)]_vars

(***************************************************************************)
(* C14. A tombstone is temporary: it never has more than the grace period  *)
(* ahead of it, only a soft destroy restarts that period, the key is       *)
(* Absent once the clock reaches the expiry, and on an Absent key a set    *)
(* with TTL > 0 succeeds and makes the key Live.                           *)
(***************************************************************************)
C14_TombstoneTemporary ==
    [][\A k \in Keys :
         /\ Tombstoned(db', k) =>
               /\ now' < db'[k].pexp
               /\ db'[k].pexp <= now' + concurrencyGraceSeconds * 1000
         /\ (Tombstoned(db, k) /\ Tombstoned(db', k) /\ db'[k].pexp # db[k].pexp) =>
               \E p \in Procs :
                  /\ ExecStep(p)
                  /\ req[p].cmd.name = "SET"
                  /\ req[p].cmd.key = k
         /\ (Tombstoned(db, k) /\ now' >= db[k].pexp) => Absent(db', k)
         /\ (Tombstoned(db, k) /\ Absent(db', k)) =>
               \A s \in RaceSessions :
                  ResolvedTtl(s, ttlSeconds, now') > 0 =>
                     LET after == SetOn(db', k[2], s, ttlSeconds, now')
                     IN /\ after.res = Stamped(s, now')
                        /\ Live(after.db, k)]_vars

\* A set called a grace period or more after a soft destroy was called has
\* returned its record, and the key is Live.
C14_Witness ==
    \E p, q \in Procs :
        /\ Returned(q, "destroy") /\ req[q].arg = TRUE /\ res[q] = Bool(TRUE)
        /\ Returned(p, "set") /\ res[p] # Null
        /\ KeyOf(p) = KeyOf(q)
        /\ req[p].at >= req[q].at + concurrencyGraceSeconds * 1000
        /\ Live(db, KeyOf(p))

(***************************************************************************)
(* C15. Last writer wins, without merging: each set with TTL > 0 executed  *)
(* on a key that is not tombstoned leaves exactly its own stamped record   *)
(* there, and the stored value of a Live key changes in no other way; so   *)
(* after racing sets the record is the one of the set executed last.       *)
(***************************************************************************)
C15_LastWriterWins ==
    [][/\ \A p \in Procs :
            (/\ ExecStep(p)
             /\ req[p].op = "set"
             /\ TtlOf(p) > 0
             /\ ~Tombstoned(db, KeyOf(p)))
            => parse(db'[KeyOf(p)].val) = Stamped(req[p].arg, req[p].at)
       /\ \A k \in Keys :
            (Live(db', k) /\ db'[k].val # db[k].val) =>
               \E p \in Procs :
                  /\ ExecStep(p)
                  /\ req[p].op = "set"
                  /\ KeyOf(p) = k
                  /\ db'[k].val = stringify(Stamped(req[p].arg, req[p].at))]_vars

\* Two sets of different sessions have both returned their records; the
\* stored record is the one of p, and carries nothing of q's.
C15_Witness ==
    \E p, q \in Procs :
        /\ p # q
        /\ Returned(p, "set") /\ res[p] # Null
        /\ Returned(q, "set") /\ res[q] # Null
        /\ res[q].cookie.expires # Undefined
        /\ res[p].cookie.expires = Undefined
        /\ Live(db, KeyOf(p))
        /\ GetOn(db, req[p].sessionId) = res[p]

(***************************************************************************)
(* C20. compare on a Live key reports concurrent = true exactly when the   *)
(* stored record's lastModified differs from the candidate's, a candidate  *)
(* without lastModified differing from every stamped value.                *)
(***************************************************************************)
C20_CompareConcurrent ==
    [][\A p \in Procs :
         (ExecStep(p) /\ req[p].op = "compare" /\ Live(db, KeyOf(p))) =>
            LET stored == db[KeyOf(p)].val.json.lastModified.v
                mine == req[p].arg.lastModified
            IN res'[p].concurrent = (mine = Undefined \/ mine.time # stored)]_vars

\* A compare with the lastModified of the stored record has reported no
\* concurrent change.
C20_Witness ==
    \E p \in Procs :
        /\ Returned(p, "compare")
        /\ res[p].existing # Null
        /\ req[p].arg.lastModified = res[p].existing.lastModified
        /\ res[p].concurrent = FALSE

(***************************************************************************)
(* C16. Scan completeness: on a store with no other writer and no expiry   *)
(* during the operation, holding N Live keys and T tombstones,             *)
(* length(false) returns N, length(true) returns N + T and all() returns   *)
(* N entries, however the scan splits the keys into batches.               *)
(***************************************************************************)
C16_ScanCompleteness ==
    (bulk.pc = "done" /\ Unexpired) =>
        LET N == Cardinality(LiveKeys(bulk.start))
            T == Cardinality(Tombstones(bulk.start))
        IN /\ Finished("length", FALSE) => bulk.result = Num(N)
           /\ Finished("length", TRUE) => bulk.result = Num(N + T)
           /\ Finished("all", FALSE) => Cardinality(DOMAIN bulk.result) = N

\* length(false) has returned 2 for two Live keys and a tombstone that the
\* scan returned in two batches.
C16_Witness ==
    /\ Finished("length", FALSE)
    /\ Unexpired
    /\ Cardinality(LiveKeys(bulk.start)) = 2
    /\ Cardinality(Tombstones(bulk.start)) = 1
    /\ Len(bulk.results) = 2
    /\ bulk.result = Num(2)

(***************************************************************************)
(* C17. all() maps every Live session id to the record decoded from the    *)
(* value stored under prefix + id, and has no entry for any other id,      *)
(* whatever the batches hold (tombstones before Live keys included).       *)
(***************************************************************************)
C17_AllMapsIds ==
    (Finished("all", FALSE) /\ Unexpired) =>
        bulk.result = [id \in {k[2] : k \in LiveKeys(bulk.start)} |->
                          parse(bulk.start[key(id)].val)]

(***************************************************************************)
(* C18. clear(true) with no other writer: each batch's keys become         *)
(* tombstones with a fresh grace-period expiry (get returns null, the key  *)
(* is present); it visits every key and returns the number of keys it      *)
(* tombstoned, N when the store held N Live keys and no tombstone.         *)
(***************************************************************************)
C18_ClearSoft ==
    [][/\ BatchStep("clear", TRUE) =>
            /\ \A k \in Range(Head(bulk.queue).keys) :
                  /\ Tombstoned(db', k)
                  /\ db'[k].pexp = now + concurrencyGraceSeconds * 1000
                  /\ GetOn(db', k[2]) = Null
            /\ \A k \in ScanKeys \ Range(Head(bulk.queue).keys) : db'[k] = db[k]
       /\ (JoinStep("clear", TRUE) /\ Unexpired) =>
            /\ bulk.visited = Present(bulk.start)
            /\ bulk'.result = Num(Cardinality(Present(bulk.start)))
            /\ Tombstones(bulk.start) = {} =>
                  bulk'.result = Num(Cardinality(LiveKeys(bulk.start)))
            /\ now = bulk.at =>
                  \A k \in Present(bulk.start) :
                     /\ Tombstoned(db', k)
                     /\ db'[k].pexp = now + concurrencyGraceSeconds * 1000]_vars

\* clear(true) has returned 3 for three Live keys that the scan returned in
\* more than one batch, after the clock had advanced; all three are
\* tombstones.
C18_Witness ==
    /\ Finished("clear", TRUE)
    /\ bulk.at > 0
    /\ now = bulk.at
    /\ LiveKeys(bulk.start) = ScanKeys
    /\ Len(bulk.results) > 1
    /\ bulk.result = Num(3)
    /\ Tombstones(db) = ScanKeys

(***************************************************************************)
(* C19. clear(false) with no other writer: each batch's keys are removed,  *)
(* tombstones included, and counted; it returns the number of keys         *)
(* deleted, leaves no key and no tombstone, and a length(false) or         *)
(* length(true) after it returns 0.                                        *)
(***************************************************************************)
C19_ClearHard ==
    [][/\ BatchStep("clear", FALSE) =>
            /\ \A k \in Range(Head(bulk.queue).keys) : Absent(db', k)
            /\ bulk'.results[Len(bulk'.results)]
                  = Cardinality(Range(Head(bulk.queue).keys) \cap Present(db))
       /\ JoinStep("clear", FALSE) =>
            /\ Present(db') = {}
            /\ Unexpired => bulk'.result = Num(Cardinality(Present(bulk.start)))
       /\ (bulk.op = "length" /\ bulk.pc = "join" /\ bulk'.pc = "done"
           /\ bulk.prev = "clear(false)") =>
            bulk'.result = Num(0)]_vars

\* clear(false) has returned 1 for a store that held one tombstone and
\* nothing else; the store is empty.
C19_Witness ==
    /\ Finished("clear", FALSE)
    /\ LiveKeys(bulk.start) = {}
    /\ Cardinality(Tombstones(bulk.start)) = 1
    /\ bulk.result = Num(1)
    /\ Present(db) = {}

(***************************************************************************)
(* C22. With ttlSeconds 0 or false, a set of a session without             *)
(* cookie.expires returns null and leaves no Live record under the key,    *)
(* while a session whose cookie.expires is in the future is stored with    *)
(* the TTL expires - now.                                                  *)
(***************************************************************************)
C22_RejectsMissingExpires ==
    [][\A p \in Procs :
         (/\ ExecStep(p)
          /\ req[p].op = "set"
          /\ ttlSeconds \in {Bool(FALSE), Num(0)})
         => LET expires == req[p].arg.cookie.expires
            IN /\ expires = Undefined =>
                     (res'[p] = Null /\ ~Live(db', KeyOf(p)))
               /\ (/\ expires # Undefined
                   /\ expires.time > req[p].at
                   /\ ~Tombstoned(db, KeyOf(p)))
                  => /\ res'[p] = Stamped(req[p].arg, req[p].at)
                     /\ Live(db', KeyOf(p))
                     /\ req[p].ttlMilliseconds = expires.time - req[p].at
                     /\ db'[KeyOf(p)].pexp = now + (expires.time - req[p].at)]_vars

\* With ttlSeconds = false, a set without cookie.expires called after the
\* clock had advanced has returned null, and the key holds a tombstone.
C22_Witness ==
    \E p \in Procs :
        /\ ttlSeconds = Bool(FALSE)
        /\ Returned(p, "set")
        /\ req[p].arg.cookie.expires = Undefined
        /\ req[p].at > 0
        /\ res[p] = Null
        /\ Tombstoned(db, KeyOf(p))

(***************************************************************************)
(* C24. deepEqual on data built from primitives, mappings and sequences:   *)
(* a value equals every value of the same structure (whatever the order    *)
(* its keys were inserted in); a changed leaf, an added key and a removed  *)
(* key, at any depth and on either side, make it false; two different      *)
(* primitives (0 and false, 1 and true) are never equal.                   *)
(***************************************************************************)
C24_DeepEqual ==
    \A p \in Procs :
        Returned(p, "deepEqual") =>
            LET a == req[p].a
                b == req[p].b
            IN /\ a = b => res[p] = Bool(TRUE)
               /\ (b \in Variants(a) \/ a \in Variants(b)) => res[p] = Bool(FALSE)
               /\ (a \in Primitives /\ b \in Primitives /\ a # b) =>
                     res[p] = Bool(FALSE)

\* deepEqual has returned false for obj2 and obj2 with one element less in
\* the array nested at b.y.
C24_Witness ==
    \E p \in Procs :
        /\ Returned(p, "deepEqual")
        /\ req[p].a = obj2
        /\ req[p].b = [obj2 EXCEPT !.b.y = Arr(<<Num(0)>>)]
        /\ res[p] = Bool(FALSE)

C21_CompareConsistent ==
    [][\A p \in Procs :
         (ExecStep(p) /\ req[p].op = "compare" /\ Live(db, KeyOf(p))) =>
            res'[p].consistent
               = (AppFields(req[p].arg) = AppFields(parse(db[KeyOf(p)].val)))]_vars

(***************************************************************************)
(* The steps of the store and of a failing engine.                         *)
(***************************************************************************)
\* The callback is called with the outcome of handler p's call.
SettleStep(p) == pc[p] = "done" /\ pc'[p] = "idle" /\ callback' # NoCallback
\* The callback is called with the outcome of the multi-key operation.
SettleBulkStep == bulk.pc = "done" /\ bulk'.pc = "idle" /\ callback' # NoCallback
\* The engine fails the command of handler p.
FailStep(p) ==
    pc[p] = "wait" /\ pc'[p] = "done" /\ "error" \in DOMAIN req'[p]
\* The default a method passes with an error.
DefaultOf(op) ==
    IF op = "destroy" THEN Bool(FALSE)
    ELSE IF op \in {"clear", "length"} THEN Num(0)
    ELSE Null
\* The callback's arguments for an outcome of the adapter.
Reported(op, outcome) ==
    IF IsError(outcome)
    THEN callback' = [op |-> op, error |-> outcome, result |-> DefaultOf(op)]
    ELSE callback' = [op |-> op, error |-> Null, result |-> outcome]

(***************************************************************************)
(* C25. Every method of the store calls back with (null, result) when the  *)
(* adapter's promise resolves with result, and with (error, d) when it     *)
(* rejects with error: d is null for get, set, touch and all, false for    *)
(* destroy, 0 for clear and length.                                        *)
(***************************************************************************)
C25_CallbackOutcome ==
    [][/\ \A p \in Procs : SettleStep(p) => Reported(req[p].op, res[p])
       /\ SettleBulkStep => Reported(bulk.op, bulk.result)]_vars

\* destroy has called back with an engine error and false.
C25_Witness ==
    /\ callback.op = "destroy"
    /\ callback.error \in Errors
    /\ callback.result = Bool(FALSE)

(***************************************************************************)
(* C26. With disableTouch, touch calls back with (null, null) and sends    *)
(* nothing to the engine: the step changes no key, starts no call, and no  *)
(* touch is ever in flight.                                                *)
(***************************************************************************)
C26_DisableTouch ==
    [][disableTouch =>
         /\ \A p \in Procs : pc'[p] = "wait" => req'[p].op # "touch"
         /\ (callback' # callback /\ callback'.op = "touch") =>
               /\ callback' = [op |-> "touch", error |-> Null, result |-> Null]
               /\ db' = db
               /\ pc' = pc /\ req' = req /\ bulk' = bulk]_vars

\* touch has called back for a session that is live, and the store has
\* nothing in flight.
C26_Witness ==
    /\ disableTouch
    /\ callback = [op |-> "touch", error |-> Null, result |-> Null]
    /\ Live(db, key(sid))
    /\ \A p \in Procs : pc[p] = "idle"

(***************************************************************************)
(* C27. When the engine fails the command of get, set, touch or destroy,   *)
(* the call rejects with that error at once: the command is not sent       *)
(* again, no key changes, and the error reaches the callback as it is.     *)
(***************************************************************************)
C27_ErrorPropagates ==
    [][\A p \in Procs :
         /\ FailStep(p) =>
               /\ res'[p] = req'[p].error
               /\ req'[p].cmd = req[p].cmd
               /\ db' = db
         /\ (SettleStep(p) /\ "error" \in DOMAIN req[p]) =>
               callback'.error = req[p].error]_vars

\* set with an expired cookie sent a destroy, the engine failed it, and the
\* callback received the error.
C27_Witness ==
    \E p \in Procs :
       /\ pc[p] = "done"
       /\ req[p].op = "set"
       /\ req[p].ttlMilliseconds <= 0
       /\ res[p] \in Errors

(***************************************************************************)
(* C28. A multi-key operation in which the SCAN or the command of a batch  *)
(* failed ends with the error of the step that failed first, whatever the  *)
(* other steps did.                                                        *)
(***************************************************************************)
C28_FirstFailure ==
    (bulk.pc = "done" /\ bulk.failures # <<>>) => bulk.result = bulk.failures[1]

\* A stored value that is not a tombstone and that the serializer cannot
\* decode.
Undecodable(v) == v # Null /\ v # TOMBSTONE /\ IsError(parse(v))
\* The batch whose command the engine is about to execute holds such a value.
BatchUndecodable ==
    \E i \in 1..Len(Head(bulk.queue).keys) :
        Undecodable(db[Head(bulk.queue).keys[i]].val)

(***************************************************************************)
(* C29. A stored value that is not a tombstone and cannot be decoded is    *)
(* fatal: get on its key fails, and all() and length(false) fail on a      *)
(* batch that holds it.                                                    *)
(***************************************************************************)
C29_DecodeFatal ==
    [][/\ \A p \in Procs :
             (ExecStep(p) /\ req[p].op = "get" /\ Undecodable(db[KeyOf(p)].val))
                => IsError(res'[p])
       /\ \A op \in {"all", "length"} :
             (BatchStep(op, FALSE) /\ BatchUndecodable) => IsError(bulk'.rejected)]_vars

\* The adapter's configuration in the instance a constructor returned.
ConfigOf(p) == IF req[p].class = "RedisStore" THEN res[p].access ELSE res[p]
\* The value the instance has for an option.
Configured(p, name) ==
    IF name = "disableTouch" THEN res[p].disableTouch ELSE ConfigOf(p)[name]
\* The options a class reads besides the client.
OptionsOf(class) ==
    {"prefix", "scanCount", "ttlSeconds", "concurrencyGraceSeconds"}
    \cup (IF class = "RedisStore" THEN {"disableTouch"} ELSE {})

(***************************************************************************)
(* C30. A constructor called without a client throws and returns no        *)
(* instance.  With a client, an option that is left out has its default    *)
(* (prefix 'sessions:', scanCount 100, ttlSeconds 86400,                   *)
(* concurrencyGraceSeconds 300, disableTouch false) and an option that is  *)
(* given keeps its value, ttlSeconds = false and 0 included.               *)
(***************************************************************************)
C30_Constructor ==
    \A p \in Procs :
       (pc[p] = "done" /\ req[p].op = "new") =>
          LET options == req[p].options
              Default == [prefix |-> Str("sessions:"), scanCount |-> Num(100),
                          ttlSeconds |-> Num(86400),
                          concurrencyGraceSeconds |-> Num(300),
                          disableTouch |-> Bool(FALSE)]
          IN IF "client" \notin DOMAIN options
             THEN IsError(res[p])
             ELSE /\ ~IsError(res[p])
                  /\ ConfigOf(p).client = options.client
                  /\ \A name \in OptionsOf(req[p].class) :
                        Configured(p, name) = IF name \in DOMAIN options
                                              THEN options[name]
                                              ELSE Default[name]

\* A store was constructed with ttlSeconds = false and nothing else but the
\* client: it keeps false and has the other defaults.
C30_Witness ==
    \E p \in Procs :
       /\ pc[p] = "done" /\ req[p].op = "new" /\ req[p].class = "RedisStore"
       /\ DOMAIN req[p].options = {"client", "ttlSeconds"}
       /\ res[p].access.ttlSeconds = Bool(FALSE)
       /\ res[p].access.concurrencyGraceSeconds = Num(300)
       /\ res[p].disableTouch = Bool(FALSE)

\* Handler p calls op: the code up to its await has run.
CallStep(p, op) == pc[p] = "idle" /\ pc'[p] = "wait" /\ req'[p].op = op

(***************************************************************************)
(* C35. The TTL that set resolves for a record is expires - now whenever   *)
(* the cookie has an expires (so <= 0 once expires has passed, whatever    *)
(* the fallback), and otherwise ttlSeconds * 1000, which is 0 when         *)
(* ttlSeconds is false or 0.                                               *)
(***************************************************************************)
C35_CheckTtl ==
    [][\A p \in Procs :
         CallStep(p, "set") =>
            LET expires == req'[p].arg.cookie.expires
                ttl == req'[p].ttlMilliseconds
            IN /\ expires # Undefined =>
                     /\ ttl = expires.time - now
                     /\ expires.time <= now => ttl <= 0
               /\ expires = Undefined =>
                     ttl = IF ttlSeconds \in {Bool(FALSE), Num(0)} THEN 0
                           ELSE ttlSeconds.v * 1000]_vars

\* set was called with a cookie whose expires had passed while the fallback
\* was positive: the TTL is negative.
C35_Witness ==
    \E p \in Procs :
       /\ pc[p] = "wait" /\ req[p].op = "set"
       /\ ttlSeconds = Num(MaxTtlSeconds)
       /\ req[p].arg.cookie.expires # Undefined
       /\ req[p].ttlMilliseconds < 0

(***************************************************************************)
(* C37. compare on a key that is Absent or Tombstoned returns              *)
(* existing = null, concurrent = false and consistent = false, whatever    *)
(* the candidate, a candidate with a lastModified included.                *)
(***************************************************************************)
C37_CompareGone ==
    [][\A p \in Procs :
         (ExecStep(p) /\ req[p].op = "compare" /\ ~Live(db, KeyOf(p))) =>
            res'[p] = [existing |-> Null, concurrent |-> FALSE,
                       consistent |-> FALSE]]_vars

\* compare with a candidate that carries a lastModified has returned for a
\* session that a soft destroy had removed.
C37_Witness ==
    \E p \in Procs :
       /\ Returned(p, "compare")
       /\ Tombstoned(db, KeyOf(p))
       /\ req[p].arg.lastModified # Undefined
       /\ res[p].existing = Null
       /\ ~res[p].concurrent

(***************************************************************************)
(* C34. A set that succeeds stores and returns a record whose lastModified *)
(* is the clock at its call, whatever lastModified the caller gave; a key  *)
(* only gets a new Live value from such a set, so the lastModified of a    *)
(* Live record is never later than the clock.                              *)
(***************************************************************************)
C34_LastModifiedStamped ==
    [][/\ \A p \in Procs :
            (ExecStep(p) /\ req[p].op = "set" /\ res'[p] # Null) =>
               /\ res'[p].lastModified = Date(req[p].at)
               /\ parse(db'[KeyOf(p)].val).lastModified = Date(req[p].at)
       /\ \A k \in Keys :
            /\ (Live(db', k) /\ db'[k].val # db[k].val) =>
                  \E p \in Procs :
                     /\ ExecStep(p) /\ req[p].op = "set" /\ KeyOf(p) = k
                     /\ parse(db'[k].val).lastModified = Date(req[p].at)
            /\ Live(db', k) => parse(db'[k].val).lastModified.time <= now']_vars

\* A set called with a lastModified other than the clock has succeeded: the
\* record it returned and the record stored carry the clock at the call.
C34_Witness ==
    \E p \in Procs :
       /\ Returned(p, "set")
       /\ req[p].arg.lastModified # Undefined
       /\ req[p].arg.lastModified # Date(req[p].at)
       /\ res[p] # Null
       /\ res[p].lastModified = Date(req[p].at)
       /\ Live(db, KeyOf(p))
       /\ parse(db[KeyOf(p)].val).lastModified = Date(req[p].at)

\* No call of the model resolves a longer TTL.
LongestTtl == MaxTtlSeconds * MsPerSecond

(***************************************************************************)
(* C38. Every value the adapter writes expires: a key that a step changes  *)
(* and leaves present has an expiry strictly after the clock and no later  *)
(* than the longest TTL, a tombstone has the grace period exactly, and     *)
(* once the callers have stopped every key is eventually Absent for good.  *)
(***************************************************************************)
C38_NothingLivesForever ==
    /\ [][\A k \in Keys :
            (db'[k] # db[k] /\ ~Absent(db', k)) =>
               /\ db'[k].pexp > now
               /\ db'[k].pexp <= now + LongestTtl
               /\ Tombstoned(db', k) =>
                     db'[k].pexp = now + concurrencyGraceSeconds * MsPerSecond]_vars
    /\ <>[](\A k \in Keys : Absent(db, k))

\* After the callers have stopped, a key that a touch had renewed is still
\* Live.
C38_Witness ==
    /\ now > MaxNow
    /\ Live(db, key(sid))
    /\ db[key(sid)].pexp > now

\* The cursor of the last reply the loop has received.
LastCursor == bulk.got[Len(bulk.got)].cursor

(***************************************************************************)
(* C31. generateKeys sends its first SCAN with the cursor 0 and every      *)
(* later one with the cursor of the reply before; it scans at least once,  *)
(* goes on exactly while the last reply's cursor is not 0, so it sends no  *)
(* SCAN after a reply with the cursor 0, and it ends on every engine whose *)
(* cursor comes back to 0.                                                 *)
(***************************************************************************)
C31_CursorProtocol ==
    /\ [](bulk.pc # "idle" =>
            /\ Len(bulk.sent) = Len(bulk.got)
            /\ bulk.sent # <<>> => bulk.sent[1] = 0
            /\ \A i \in 2..Len(bulk.sent) : bulk.sent[i] = bulk.got[i - 1].cursor
            /\ \A i \in 1..(Len(bulk.got) - 1) : bulk.got[i].cursor # 0
            /\ bulk.pc = "scan" <=> (bulk.got = <<>> \/ LastCursor # 0)
            /\ bulk.pc # "scan" => bulk.sent # <<>>)
    /\ (bulk.pc = "scan") ~> (bulk.pc # "scan")

\* The loop has ended after three scans, sent with the cursors 0, 2 and 1.
C31_Witness ==
    /\ bulk.pc = "join"
    /\ bulk.sent = <<0, 2, 1>>
    /\ LastCursor = 0

\* The key lists of the replies received, in reply order, and their
\* concatenation.
ReplyKeys == [i \in 1..Len(bulk.got) |-> bulk.got[i].keys]
RECURSIVE Concat(_)
Concat(lists) == IF lists = <<>> THEN <<>> ELSE Head(lists) \o Concat(Tail(lists))
\* The loop yields key by key (length(true)) and not batch by batch.
PerKey == bulk.op = "length" /\ bulk.arg

(***************************************************************************)
(* C32. generateKeys yields what the replies hold and nothing else: batch  *)
(* by batch, the non-empty key lists of the replies in reply order, never  *)
(* an empty batch; key by key, the concatenation of the lists, a key that  *)
(* the engine lists twice included twice.                                  *)
(***************************************************************************)
C32_YieldsReplies ==
    bulk.pc # "idle" =>
       IF PerKey
       THEN /\ bulk.out = Concat(ReplyKeys)
            /\ bulk.n = Len(bulk.out)
       ELSE /\ bulk.out = SelectSeq(ReplyKeys, LAMBDA keys : keys # <<>>)
            /\ \A i \in 1..Len(bulk.out) : bulk.out[i] # <<>>

\* Key by key, the loop has yielded three keys from three replies, one of
\* them without keys and one key listed by two of them.
C32_Witness ==
    /\ PerKey
    /\ bulk.pc = "join"
    /\ Len(bulk.got) = 3
    /\ bulk.got[2].keys = <<>>
    /\ bulk.out = <<key(sid), key("2345"), key(sid)>>

AllOfYielded ==
    ObjectAssign([i \in 1..Len(bulk.out) |->
                     allBatchResult(bulk.out[i], RedisMGET(db, bulk.out[i]))])

(***************************************************************************)
(* C39. length(false) returns the number of entries that all() has for     *)
(* the same SCAN replies and the same stored values, a key that the engine *)
(* lists in more than one batch included.                                  *)
(***************************************************************************)
C39_LengthMatchesAll ==
    Finished("length", FALSE) =>
       bulk.result = Num(Cardinality(DOMAIN AllOfYielded))

(***************************************************************************)
(* C40. A method of the store calls the callback exactly once per call:    *)
(* when the adapter's promise resolves, when it rejects, and when the      *)
(* callback throws on a result.                                            *)
(***************************************************************************)
C40_CallbackOnce ==
    "calls" \in DOMAIN callback => Len(callback.calls) = 1

\* A batch of clear(true) is in part executed: some of its SETs, not all.
BatchInPart ==
    /\ bulk.op = "clear"
    /\ bulk.arg
    /\ "replies" \in DOMAIN bulk
    /\ bulk.replies # <<>>

(***************************************************************************)
(* C33. clear(true) tombstones a batch in one transaction: no command of   *)
(* another client changes the store between the tombstone writes of two    *)
(* keys of the same batch.                                                 *)
(***************************************************************************)
C33_BatchAtomic ==
    [][\A p \in Procs : (ExecStep(p) /\ db' # db) => ~BatchInPart]_vars

=============================================================================
